---- MODULE Spec2Model ----
(***************************************************************************)
(* A model of the PDF field-discovery and safe-fill engine of              *)
(* gabsy/pdf-generator (PDFGenerationService and the pdfUtils helpers).    *)
(*                                                                         *)
(* Strings are sequences of one-character strings, so that trim,           *)
(* toLowerCase, includes, substring and the regular expressions of the     *)
(* source are computed character by character.                             *)
(***************************************************************************)
EXTENDS Integers, Sequences, FiniteSets, TLC

VARIABLES
    nameCand,     \* isValidFieldName: the candidate string under validation
    nameVerdict,  \* isValidFieldName: the verdicts of the two validators, once checked
    tpl,          \* the template document behind template.fileData
    templateFileData, \* the content of the storage of template.fileData
    mappings,     \* the field mappings of the section
    userData,     \* the data record of the call
    pdfLib,       \* the outcomes of the pdf-lib calls made by the call
    last,         \* what the call of generateSinglePDF did and returned
    users,        \* generateBulkPDFs: the data records of the batch
    bulk,         \* generateBulkPDFs: its locals, the zip and the progress events
    pdfData,      \* extractFormFields: the document behind the bytes given to it
    discovery,    \* extractFormFields: the results of two calls on pdfData
    component     \* UsersList: the selection, the progress status, the runs, the timeouts

nameVars == <<nameCand, nameVerdict>>

fillVars == <<tpl, templateFileData, mappings, userData, pdfLib, last>>

bulkVars == <<users, bulk>>

discoveryVars == <<pdfData, discovery>>

vars ==
    <<nameCand, nameVerdict, tpl, templateFileData, mappings, userData, pdfLib, last,
      users, bulk, pdfData, discovery, component>>

(***************************************************************************)
(* String primitives of the JavaScript runtime, as the source uses them.   *)
(***************************************************************************)
UpperLetters == <<"A","B","C","D","E","F","G","H","I","J","K","L","M","N","O","P","Q","R","S","T","U","V","W","X","Y","Z">>

LowerLetters == <<"a","b","c","d","e","f","g","h","i","j","k","l","m","n","o","p","q","r","s","t","u","v","w","x","y","z">>

Digits == {"0","1","2","3","4","5","6","7","8","9"}

WhiteSpace == {" ", "\t", "\n", "\r"}

Range(s) == { s[i] : i \in DOMAIN s }

IsLetter(c) == c \in Range(UpperLetters) \cup Range(LowerLetters)

LowerChar(c) ==
    IF c \in Range(UpperLetters)
    THEN LowerLetters[CHOOSE i \in DOMAIN UpperLetters : UpperLetters[i] = c]
    ELSE c

\* String.prototype.toLowerCase
toLowerCase(s) == [i \in DOMAIN s |-> LowerChar(s[i])]

\* String.prototype.startsWith
startsWith(s, p) == Len(p) <= Len(s) /\ SubSeq(s, 1, Len(p)) = p

\* String.prototype.endsWith (the regular expressions' trailing $)
endsWith(s, p) == Len(p) <= Len(s) /\ SubSeq(s, Len(s) - Len(p) + 1, Len(s)) = p

\* String.prototype.includes
includes(s, p) == \E i \in 0..(Len(s) - Len(p)) : SubSeq(s, i + 1, i + Len(p)) = p

\* String.prototype.substring(0, n)
substring(s, n) == IF Len(s) > n THEN SubSeq(s, 1, n) ELSE s

\* String.prototype.trim
trim(s) ==
    LET keep == { i \in DOMAIN s : s[i] \notin WhiteSpace }
    IN  IF keep = {} THEN <<>>
        ELSE LET lo == CHOOSE i \in keep : \A j \in keep : i <= j
                 hi == CHOOSE i \in keep : \A j \in keep : j <= i
             IN  SubSeq(s, lo, hi)

(***************************************************************************)
(* Name validation (PDFGenerationService.isValidFieldName and the helper   *)
(* of the same name in utils/pdfUtils.ts).                                 *)
(***************************************************************************)
\* /^(form|data|...|encoding)$/i
structuralTokens ==
    { <<"f","o","r","m">>,
      <<"d","a","t","a">>,
      <<"t","e","m","p","l","a","t","e">>,
      <<"s","u","b","f","o","r","m">>,
      <<"e","x","d","a","t","a">>,
      <<"b","i","n","d">>,
      <<"x","f","a">>,
      <<"p","d","f">>,
      <<"p","a","g","e">>,
      <<"d","o","c","u","m","e","n","t">>,
      <<"r","o","o","t">>,
      <<"d","a","t","a","s","e","t","s">>,
      <<"c","o","n","f","i","g">>,
      <<"x","m","l","n","s">>,
      <<"v","e","r","s","i","o","n">>,
      <<"e","n","c","o","d","i","n","g">> }

\* /^(true|false|null|undefined|yes|no)$/i
booleanTokens ==
    { <<"t","r","u","e">>,
      <<"f","a","l","s","e">>,
      <<"n","u","l","l">>,
      <<"u","n","d","e","f","i","n","e","d">>,
      <<"y","e","s">>,
      <<"n","o">> }

\* /^(http|https|ftp|file):/i
urlSchemes ==
    { <<"h","t","t","p",":">>,
      <<"h","t","t","p","s",":">>,
      <<"f","t","p",":">>,
      <<"f","i","l","e",":">> }

\* /\.(pdf|xml|html|js|css|xdp|xfa)$/i
fileExtensions ==
    { <<".","p","d","f">>,
      <<".","x","m","l">>,
      <<".","h","t","m","l">>,
      <<".","j","s">>,
      <<".","c","s","s">>,
      <<".","x","d","p">>,
      <<".","x","f","a">> }

\* /^(adobe|acrobat|reader|designer|livecycle)$/i
softwareTokens ==
    { <<"a","d","o","b","e">>,
      <<"a","c","r","o","b","a","t">>,
      <<"r","e","a","d","e","r">>,
      <<"d","e","s","i","g","n","e","r">>,
      <<"l","i","v","e","c","y","c","l","e">> }

\* /^(font|color|size|width|height|margin|padding)$/i
styleTokens ==
    { <<"f","o","n","t">>,
      <<"c","o","l","o","r">>,
      <<"s","i","z","e">>,
      <<"w","i","d","t","h">>,
      <<"h","e","i","g","h","t">>,
      <<"m","a","r","g","i","n">>,
      <<"p","a","d","d","i","n","g">> }

\* /[<>{}[\]]/
bracketChars == {"<", ">", "{", "}", "[", "]"}

MinNameLength == 2

MaxNameLength == 100

\* The list invalidPatterns, tested in order; rejecting on the first match.
matchesInvalidPattern(name) ==
    \/ toLowerCase(name) \in structuralTokens
    \/ (name # <<>> /\ \A i \in DOMAIN name : name[i] \in Digits)
    \/ \A i \in DOMAIN name : name[i] \in WhiteSpace
    \/ \E i \in DOMAIN name : name[i] \in bracketChars
    \/ toLowerCase(name) \in booleanTokens
    \/ \E p \in urlSchemes : startsWith(toLowerCase(name), p)
    \/ \E e \in fileExtensions : endsWith(toLowerCase(name), e)
    \/ toLowerCase(name) \in softwareTokens
    \/ toLowerCase(name) \in styleTokens
    \/ (name # <<>> /\ ~IsLetter(name[1]))

\* isValidFieldName without the upper length limit.
isValidFieldName_NoUpperLimit(name) ==
    IF Len(name) < MinNameLength THEN FALSE
    ELSE IF matchesInvalidPattern(name) THEN FALSE
    ELSE IF ~(\E i \in DOMAIN name : IsLetter(name[i])) THEN FALSE
    ELSE TRUE

isValidFieldName(name) ==
    IF Len(name) < MinNameLength \/ Len(name) > MaxNameLength THEN FALSE
    ELSE IF matchesInvalidPattern(name) THEN FALSE
    ELSE IF ~(\E i \in DOMAIN name : IsLetter(name[i])) THEN FALSE
    ELSE TRUE

\* utils/pdfUtils.ts: its own pattern list and its own length limit.
utilsStructuralTokens ==
    { <<"f","o","r","m">>,
      <<"d","a","t","a">>,
      <<"t","e","m","p","l","a","t","e">>,
      <<"s","u","b","f","o","r","m">>,
      <<"e","x","d","a","t","a">>,
      <<"b","i","n","d">>,
      <<"x","f","a">>,
      <<"p","d","f">>,
      <<"p","a","g","e">>,
      <<"d","o","c","u","m","e","n","t">>,
      <<"r","o","o","t">>,
      <<"d","a","t","a","s","e","t","s">>,
      <<"c","o","n","f","i","g">> }

utilsXmlAttributeTokens ==
    { <<"x","m","l","n","s">>,
      <<"v","e","r","s","i","o","n">>,
      <<"e","n","c","o","d","i","n","g">>,
      <<"s","t","a","n","d","a","l","o","n","e">> }

utilsSoftwareTokens ==
    { <<"a","d","o","b","e">>,
      <<"a","c","r","o","b","a","t">>,
      <<"r","e","a","d","e","r">>,
      <<"d","e","s","i","g","n","e","r">> }

UtilsMaxNameLength == 50

utilsMatchesInvalidPattern(name) ==
    \/ toLowerCase(name) \in utilsStructuralTokens
    \/ (name # <<>> /\ \A i \in DOMAIN name : name[i] \in Digits)
    \/ \A i \in DOMAIN name : name[i] \in WhiteSpace
    \/ \E i \in DOMAIN name : name[i] \in bracketChars
    \/ toLowerCase(name) \in booleanTokens
    \/ \E p \in urlSchemes : startsWith(toLowerCase(name), p)
    \/ \E e \in fileExtensions : endsWith(toLowerCase(name), e)
    \/ toLowerCase(name) \in utilsXmlAttributeTokens
    \/ toLowerCase(name) \in utilsSoftwareTokens

utilsIsValidFieldName(name) ==
    IF Len(name) < MinNameLength \/ Len(name) > UtilsMaxNameLength THEN FALSE
    ELSE IF utilsMatchesInvalidPattern(name) THEN FALSE
    ELSE IF ~(\E i \in DOMAIN name : IsLetter(name[i])) THEN FALSE
    ELSE TRUE

(***************************************************************************)
(* Candidates: concatenations of at most MaxPieces pieces.                 *)
(***************************************************************************)
MaxPieces == 2

Repeat(c, n) == [i \in 1..n |-> c]

NamePieces ==
    { <<"a">>,
      <<"Z">>,
      <<"7">>,
      <<"_">>,
      <<" ">>,
      <<".","p","d","f">>,
      <<"h","t","t","p",":">>,
      <<"T","r","u","e">>,
      <<"F","o","r","m">>,
      <<"D","e","s","i","g","n","e","r">>,
      <<"<","x","f","a",":","t","e","m","p","l","a","t","e",">">>,
      <<"n","u","m","e","_","s","o","l","i","c","i","t","a","n","t">>,
      <<"s","t","a","n","d","a","l","o","n","e">>,
      <<"s","i","z","e">>,
      Repeat("a", 50), Repeat("b", 51) }

RECURSIVE Concat(_)
Concat(ps) == IF ps = <<>> THEN <<>> ELSE Head(ps) \o Concat(Tail(ps))

Candidates ==
    { Concat(ps) : ps \in UNION { [1..n -> NamePieces] : n \in 0..MaxPieces } }

(***************************************************************************)
(* The safe-fill engine: PDFGenerationService.generateSinglePDF.           *)
(*                                                                         *)
(* A document is abstracted to what the code reads of it: the text of its  *)
(* scanned prefix, whether pdf-lib parses it, whether its form is          *)
(* accessible, and its fields.  A buffer is [buf, data]: buf names the     *)
(* storage (the template's ArrayBuffer or a fresh one made by save), data  *)
(* what the bytes hold.                                                    *)
(***************************************************************************)
Unset == [state |-> "unset", v |-> <<>>]

\* The data of the template's bytes, and of a buffer produced by pdfDoc.save.
TemplateData(t) ==
    [origin |-> "template", text |-> t.text, values |-> [i \in DOMAIN t.fields |-> Unset],
     flattened |-> FALSE, appearances |-> FALSE,
     size |-> t.size, header |-> ~t.empty, parses |-> t.parseable]

SavedData(doc, outcome, updateFieldAppearances) ==
    [origin |-> "save", text |-> doc.text, values |-> doc.values,
     flattened |-> doc.flattened,
     appearances |-> (doc.appearances \/ updateFieldAppearances),
     size |-> outcome.size, header |-> outcome.header, parses |-> outcome.parses]

\* new Uint8Array(template.fileData): a view on the template's storage.
Uint8ArrayView(fileData) == [buf |-> "fileData", data |-> fileData]

\* PDFDocument.load: the parsed document is an object graph of its own.
PDFDocumentLoad(bytes, t) ==
    [text |-> bytes.data.text, fields |-> t.fields, values |-> bytes.data.values,
     formOk |-> t.formOk, flattened |-> FALSE, appearances |-> FALSE]

\* form.getField(name): the index of the field of that exact name, 0 when absent
\* (pdf-lib raises).
getField(doc, name) ==
    IF \E i \in DOMAIN doc.fields : doc.fields[i].name = name
    THEN CHOOSE i \in DOMAIN doc.fields :
            /\ doc.fields[i].name = name
            /\ \A j \in DOMAIN doc.fields : doc.fields[j].name = name => i <= j
    ELSE 0

\* Truthiness of a string-valued property (undefined and "" are falsy).
Truthy(s) == s # <<>>

HasColumn(user, col) == col \in DOMAIN user

(***************************************************************************)
(* unnamed/part_003: the conservative engine.                              *)
(***************************************************************************)
xfaIndicators ==
    << <<"/","X","F","A">>, <<"<","x","f","a",":">>, <<"<","x","d","p",":">>, <<"<","t","e","m","p","l","a","t","e"," ","x","m","l","n","s",":","x","f","a">>, <<"a","p","p","l","i","c","a","t","i","o","n","/","v","n","d",".","a","d","o","b","e",".","x","d","p","+","x","m","l">>, <<"X","F","A","_">>, <<"x","f","a",".","f","o","r","m">>, <<"x","f","a",".","d","a","t","a","s","e","t","s">>, <<"x","f","a",".","t","e","m","p","l","a","t","e">>, <<"L","i","v","e","C","y","c","l","e">>, <<"D","e","s","i","g","n","e","r">> >>

romanianGovIndicators ==
    << <<"M","i","n","i","s","t","e","r","u","l">>, <<"G","u","v","e","r","n","u","l">>, <<"A","g","e","n","t","i","a">>, <<"P","r","i","m","a","r","i","a">>, <<"C","o","n","s","i","l","i","u","l">>, <<"g","h","i","d">>, <<"c","e","r","e","r","e">>, <<"f","o","r","m","u","l","a","r">> >>

\* isXFAForm of part_003: any XFA indicator, or any Romanian government
\* indicator (case-insensitively); false when the scan raises.
isXFAForm(text, scanThrows) ==
    IF scanThrows THEN FALSE
    ELSE LET isXFA == \E i \in DOMAIN xfaIndicators : includes(text, xfaIndicators[i])
             isRomanianGov ==
                 \E i \in DOMAIN romanianGovIndicators :
                     includes(toLowerCase(text), toLowerCase(romanianGovIndicators[i]))
         IN  isXFA \/ isRomanianGov

criticalFieldNames ==
    << <<"n","u","m","e">>, <<"p","r","e","n","u","m","e">>, <<"n","a","m","e">>, <<"f","i","r","s","t","_","n","a","m","e">>, <<"l","a","s","t","_","n","a","m","e">>, <<"c","n","p">>, <<"i","d">>, <<"n","u","m","b","e","r">>, <<"n","u","m","a","r">>, <<"e","m","a","i","l">>, <<"t","e","l","e","f","o","n">>, <<"p","h","o","n","e">> >>

MaxCriticalFields == 3

selectCriticalFields(fieldMappings, maxFields) ==
    LET isCritical(m) ==
            \E i \in DOMAIN criticalFieldNames :
                includes(toLowerCase(m.pdfFieldName), toLowerCase(criticalFieldNames[i]))
        criticalMappings == SelectSeq(fieldMappings, isCritical)
    IN  SubSeq(criticalMappings, 1,
               IF Len(criticalMappings) < maxFields THEN Len(criticalMappings) ELSE maxFields)

validateFieldMappings(doc, fieldMappings) ==
    LET ok(m) ==
            /\ (Truthy(m.csvColumnName) \/ Truthy(m.defaultValue))
            /\ getField(doc, m.pdfFieldName) # 0
    IN  SelectSeq(fieldMappings, ok)

ControlChars == {"\f"}

TextMaxLength == 200

sanitizeTextValue(value, maxLength) ==
    LET notControl(c) == c \notin ControlChars
        notAngle(c) == c \notin {"<", ">"}
        sanitized == trim(SelectSeq(SelectSeq(value, notControl), notAngle))
    IN  substring(sanitized, maxLength)

truthyTokens ==
    { <<"t","r","u","e">>, <<"y","e","s">>, <<"1">>, <<"o","n">>, <<"d","a">>, <<"c","h","e","c","k","e","d">>, <<"x">>, <<"a","d","e","v","a","r","a","t">> }

parseBoolean(value) == trim(toLowerCase(value)) \in truthyTokens

\* The value of a mapping for a record, as fillSingleFieldSafely resolves it.
resolveValue(mapping, user) ==
    IF Truthy(mapping.csvColumnName) /\ HasColumn(user, mapping.csvColumnName)
    THEN trim(user[mapping.csvColumnName])
    ELSE IF Truthy(mapping.defaultValue) THEN trim(mapping.defaultValue)
    ELSE <<>>

SetValue(doc, i, val) == [doc EXCEPT !.values[i] = val]

\* fillSingleFieldSafely: [doc, success, raised], raised telling whether an
\* exception was raised (and absorbed) on the way.
fillSingleFieldSafely(doc, mapping, user) ==
    LET value == resolveValue(mapping, user)
        i == getField(doc, mapping.pdfFieldName)
        no(raised) == [doc |-> doc, success |-> FALSE, raised |-> raised]
    IN  IF ~Truthy(value) THEN no(FALSE)
        ELSE IF i = 0 THEN no(TRUE)
        ELSE LET f == doc.fields[i]
             IN  IF f.throws THEN no(TRUE)
                 ELSE IF f.type = "Text"
                 THEN [doc |-> SetValue(doc, i, [state |-> "text",
                                                 v |-> sanitizeTextValue(value, TextMaxLength)]),
                       success |-> TRUE, raised |-> FALSE]
                 ELSE IF f.type = "CheckBox"
                 THEN [doc |-> SetValue(doc, i, [state |-> IF parseBoolean(value)
                                                           THEN "checked" ELSE "unchecked",
                                                 v |-> <<>>]),
                       success |-> TRUE, raised |-> FALSE]
                 ELSE IF f.type \in {"Radio", "Dropdown"}
                 THEN IF value \in Range(f.options)
                      THEN [doc |-> SetValue(doc, i, [state |-> "selected", v |-> value]),
                            success |-> TRUE, raised |-> FALSE]
                      ELSE no(FALSE)
                 ELSE no(FALSE)

\* The loop over the mappings to fill: [doc, filled, attempted, raised].
RECURSIVE fillAll(_, _, _, _)
fillAll(acc, todo, user, k) ==
    IF k > Len(todo) THEN acc
    ELSE LET next(r) ==
                 fillAll([doc |-> r.doc,
                          filled |-> acc.filled + (IF r.success THEN 1 ELSE 0),
                          attempted |-> Append(acc.attempted, todo[k].pdfFieldName),
                          raised |-> acc.raised \/ r.raised],
                         todo, user, k + 1)
         IN  next(fillSingleFieldSafely(acc.doc, todo[k], user))

MinViableSize == 1000

\* validateGeneratedPDF: the bytes re-parse, are at least 1000 long and begin
\* with %PDF-.
validateGeneratedPDF(pdfBytes) ==
    IF ~pdfBytes.data.parses THEN FALSE
    ELSE IF pdfBytes.data.size < MinViableSize THEN FALSE
    ELSE IF ~pdfBytes.data.header THEN FALSE
    ELSE TRUE

\* What one call of generateSinglePDF did, for the claims to read.
RunRecord(impl, out, isXFA, exceptions, validated, fill, flags) ==
    [impl |-> impl, given |-> TRUE, raised |-> FALSE, out |-> out, isXFA |-> isXFA,
     exceptions |-> exceptions, validated |-> validated,
     attempted |-> fill.attempted, filled |-> fill.filled,
     flattened |-> flags.flattened, formAppearances |-> flags.formAppearances,
     saveAppearances |-> flags.saveAppearances]

NoFill == [attempted |-> <<>>, filled |-> 0]

NoFlags == [flattened |-> FALSE, formAppearances |-> FALSE, saveAppearances |-> FALSE]

FieldExceptions(fill) == IF fill.raised THEN {"field"} ELSE {}

\* A save that writes its output over the template's storage.
Save_IntoTemplate(doc, outcome, updateFieldAppearances) ==
    [buf |-> "fileData", data |-> SavedData(doc, outcome, updateFieldAppearances)]

\* pdfDoc.save: a fresh buffer.
Save(doc, outcome, updateFieldAppearances) ==
    [buf |-> "saved", data |-> SavedData(doc, outcome, updateFieldAppearances)]

handleXFAForm(pdfDoc, originalBytes, user, fieldMappings, env, exc) ==
    IF ~pdfDoc.formOk
    THEN RunRecord("conservative", originalBytes, TRUE, exc \cup {"form"}, "skipped",
                   NoFill, NoFlags)
    ELSE LET fieldsToFill == selectCriticalFields(fieldMappings, MaxCriticalFields)
             save(fill, exc2) ==
                 IF env.save.throws
                 THEN RunRecord("conservative", originalBytes, TRUE, exc2 \cup {"save"},
                                "skipped", fill, NoFlags)
                 ELSE RunRecord("conservative", Save(fill.doc, env.save, FALSE), TRUE,
                                exc2, "skipped", fill, NoFlags)
             filled(fill) == save(fill, exc \cup FieldExceptions(fill))
         IN  filled(fillAll([doc |-> pdfDoc, filled |-> 0, attempted |-> <<>>,
                             raised |-> FALSE], fieldsToFill, user, 1))

\* A standard path that returns the saved bytes although validation failed.
handleStandardForm_KeepsInvalid(pdfDoc, originalBytes, user, fieldMappings, env, exc) ==
    IF ~pdfDoc.formOk
    THEN RunRecord("conservative", originalBytes, FALSE, exc \cup {"form"}, "skipped",
                   NoFill, NoFlags)
    ELSE LET safeFieldMappings == validateFieldMappings(pdfDoc, fieldMappings)
             validate(pdfBytes, fill, exc2, flags) ==
                 IF validateGeneratedPDF(pdfBytes)
                 THEN RunRecord("conservative", pdfBytes, FALSE, exc2, "passed",
                                fill, flags)
                 ELSE RunRecord("conservative", pdfBytes, FALSE,
                                exc2 \cup (IF pdfBytes.data.parses THEN {}
                                           ELSE {"validation"}),
                                "failed", fill, flags)
             save(fill, exc2, flags) ==
                 IF env.save.throws
                 THEN RunRecord("conservative", originalBytes, FALSE, exc2 \cup {"save"},
                                "skipped", fill, flags)
                 ELSE validate(Save(fill.doc, env.save, fill.filled > 0), fill, exc2,
                               flags)
             filled(fill) ==
                 save(fill, exc \cup FieldExceptions(fill),
                      [NoFlags EXCEPT !.saveAppearances = (fill.filled > 0)])
         IN  filled(fillAll([doc |-> pdfDoc, filled |-> 0, attempted |-> <<>>,
                             raised |-> FALSE], safeFieldMappings, user, 1))

handleStandardForm(pdfDoc, originalBytes, user, fieldMappings, env, exc) ==
    IF ~pdfDoc.formOk
    THEN RunRecord("conservative", originalBytes, FALSE, exc \cup {"form"}, "skipped",
                   NoFill, NoFlags)
    ELSE LET safeFieldMappings == validateFieldMappings(pdfDoc, fieldMappings)
             validate(pdfBytes, fill, exc2, flags) ==
                 IF validateGeneratedPDF(pdfBytes)
                 THEN RunRecord("conservative", pdfBytes, FALSE, exc2, "passed",
                                fill, flags)
                 ELSE RunRecord("conservative", originalBytes, FALSE,
                                exc2 \cup (IF pdfBytes.data.parses THEN {}
                                           ELSE {"validation"}),
                                "failed", fill, flags)
             save(fill, exc2, flags) ==
                 IF env.save.throws
                 THEN RunRecord("conservative", originalBytes, FALSE, exc2 \cup {"save"},
                                "skipped", fill, flags)
                 ELSE validate(Save(fill.doc, env.save, fill.filled > 0), fill, exc2,
                               flags)
             filled(fill) ==
                 save(fill, exc \cup FieldExceptions(fill),
                      [NoFlags EXCEPT !.saveAppearances = (fill.filled > 0)])
         IN  filled(fillAll([doc |-> pdfDoc, filled |-> 0, attempted |-> <<>>,
                             raised |-> FALSE], safeFieldMappings, user, 1))

\* A generateSinglePDF whose PDFDocument.load is outside the try block.
generateSinglePDF_LoadUnguarded(t, fileData, user, fieldMappings, env) ==
    LET originalBytes == Uint8ArrayView(fileData)
    IN  IF fileData.size = 0
        THEN RunRecord("conservative", Uint8ArrayView(fileData), FALSE, {"empty"},
                       "skipped", NoFill, NoFlags)
        ELSE LET exc == IF env.scanThrows THEN {"classification"} ELSE {}
                 classified(isXFA) ==
                     IF ~fileData.parses
                     THEN [RunRecord("conservative", [buf |-> "none", data |-> <<>>], isXFA,
                                     exc \cup {"load"}, "skipped", NoFill, NoFlags)
                              EXCEPT !.raised = TRUE]
                     ELSE LET pdfDoc == PDFDocumentLoad(originalBytes, t)
                          IN  IF isXFA
                              THEN handleXFAForm(pdfDoc, originalBytes, user,
                                                 fieldMappings, env, exc)
                              ELSE handleStandardForm(pdfDoc, originalBytes, user,
                                                      fieldMappings, env, exc)
             IN  classified(isXFAForm(fileData.text, env.scanThrows))

\* generateSinglePDF of part_003.  t is the document behind template.fileData,
\* fileData the present content of that storage.
generateSinglePDF(t, fileData, user, fieldMappings, env) ==
    LET originalBytes == Uint8ArrayView(fileData)
    IN  IF fileData.size = 0
        THEN RunRecord("conservative", Uint8ArrayView(fileData), FALSE, {"empty"},
                       "skipped", NoFill, NoFlags)
        ELSE LET exc == IF env.scanThrows THEN {"classification"} ELSE {}
                 classified(isXFA) ==
                     IF ~fileData.parses
                     THEN RunRecord("conservative", originalBytes, isXFA, exc \cup {"load"},
                                    "skipped", NoFill, NoFlags)
                     ELSE LET pdfDoc == PDFDocumentLoad(originalBytes, t)
                          IN  IF isXFA
                              THEN handleXFAForm(pdfDoc, originalBytes, user,
                                                 fieldMappings, env, exc)
                              ELSE handleStandardForm(pdfDoc, originalBytes, user,
                                                      fieldMappings, env, exc)
             IN  classified(isXFAForm(fileData.text, env.scanThrows))

(***************************************************************************)
(* src/services/pdfGeneration.ts, first class (lines 5-682): the basic     *)
(* engine, with no classification and no validation.                       *)
(***************************************************************************)
HasDataSource(m) == Truthy(m.csvColumnName) \/ Truthy(m.defaultValue)

BasicTextMaxLength == 500

basicTruthyTokens ==
    { <<"t","r","u","e">>, <<"y","e","s">>, <<"1">>, <<"o","n">>, <<"d","a">>, <<"c","h","e","c","k","e","d">>, <<"x">> }

\* options.find(option => option includes value or value includes option,
\* case-insensitively): the index of the first such option, 0 when none.
\* A secondary pass that settles on the first option whatever the value.
partialMatch_FirstOption(options, value) == IF options = <<>> THEN 0 ELSE 1

partialMatch(options, value) ==
    LET hit(i) == \/ includes(toLowerCase(options[i]), toLowerCase(value))
                  \/ includes(toLowerCase(value), toLowerCase(options[i]))
    IN  IF \E i \in DOMAIN options : hit(i)
        THEN CHOOSE i \in DOMAIN options : hit(i) /\ \A j \in DOMAIN options : hit(j) => i <= j
        ELSE 0

\* The body of the loop of lines 50-158 for one mapping that has a data source.
fillField_basic(doc, mapping, user) ==
    LET value == resolveValue(mapping, user)
        i == getField(doc, mapping.pdfFieldName)
        no(raised) == [doc |-> doc, success |-> FALSE, raised |-> raised]
        yes(val) == [doc |-> SetValue(doc, i, val), success |-> TRUE, raised |-> FALSE]
    IN  IF ~Truthy(value) THEN no(FALSE)
        ELSE IF i = 0 THEN no(TRUE)
        ELSE LET f == doc.fields[i]
             IN  IF f.throws THEN no(TRUE)
                 ELSE IF f.type = "Text"
                 THEN yes([state |-> "text", v |-> substring(value, BasicTextMaxLength)])
                 ELSE IF f.type = "CheckBox"
                 THEN yes([state |-> IF toLowerCase(value) \in basicTruthyTokens
                                     THEN "checked" ELSE "unchecked", v |-> <<>>])
                 ELSE IF f.type = "Radio"
                 THEN IF value \in Range(f.options)
                      THEN yes([state |-> "selected", v |-> value])
                      ELSE no(FALSE)
                 ELSE IF f.type = "Dropdown"
                 THEN IF value \in Range(f.options)
                      THEN yes([state |-> "selected", v |-> value])
                      ELSE IF partialMatch(f.options, value) # 0
                      THEN yes([state |-> "selected",
                                v |-> f.options[partialMatch(f.options, value)]])
                      ELSE no(FALSE)
                 ELSE no(FALSE)

RECURSIVE fillAll_basic(_, _, _, _)
fillAll_basic(acc, fieldMappings, user, k) ==
    IF k > Len(fieldMappings) THEN acc
    ELSE IF ~HasDataSource(fieldMappings[k])
    THEN fillAll_basic(acc, fieldMappings, user, k + 1)
    ELSE LET next(r) ==
                 fillAll_basic([doc |-> r.doc,
                                filled |-> acc.filled + (IF r.success THEN 1 ELSE 0),
                                attempted |-> Append(acc.attempted,
                                                     fieldMappings[k].pdfFieldName),
                                raised |-> acc.raised \/ r.raised],
                               fieldMappings, user, k + 1)
         IN  next(fillField_basic(acc.doc, fieldMappings[k], user))

generateSinglePDF_basic(t, fileData, user, fieldMappings, env) ==
    LET originalBytes == Uint8ArrayView(fileData)
    IN  IF ~fileData.parses
        THEN RunRecord("basic", Uint8ArrayView(fileData), FALSE, {"load"}, "skipped",
                       NoFill, NoFlags)
        ELSE LET pdfDoc == PDFDocumentLoad(originalBytes, t)
                 hasForm == pdfDoc.formOk
                 appearances == hasForm /\ ~env.appearanceThrows
                 flags == [NoFlags EXCEPT !.formAppearances = appearances]
                 save(fill, exc) ==
                     IF env.save.throws
                     THEN RunRecord("basic", originalBytes, FALSE, exc \cup {"save"},
                                    "skipped", fill, flags)
                     ELSE RunRecord("basic",
                                    Save([fill.doc EXCEPT !.appearances = appearances],
                                         env.save, FALSE),
                                    FALSE, exc, "skipped", fill, flags)
                 filled(fill) ==
                     save(fill,
                          (IF hasForm THEN {} ELSE {"form"})
                          \cup FieldExceptions(fill)
                          \cup (IF hasForm /\ env.appearanceThrows
                                THEN {"appearance"} ELSE {}))
             IN  filled(IF hasForm
                        THEN fillAll_basic([doc |-> pdfDoc, filled |-> 0,
                                            attempted |-> <<>>, raised |-> FALSE],
                                           fieldMappings, user, 1)
                        ELSE [doc |-> pdfDoc, filled |-> 0, attempted |-> <<>>,
                              raised |-> FALSE])

(***************************************************************************)
(* src/services/pdfGeneration.ts, second class (lines 687-1473): the       *)
(* compatibility engine, with handleXFAForm and createFallbackPDF.         *)
(***************************************************************************)
\* isXFAForm of pdfGeneration.ts: the XFA indicators alone.
isXFAForm_compat(text, scanThrows) ==
    IF scanThrows THEN FALSE
    ELSE \E i \in DOMAIN xfaIndicators : includes(text, xfaIndicators[i])

\* user[mapping.csvColumnName] || mapping.defaultValue || '', then trim.
resolveValue_compat(mapping, user) ==
    IF HasColumn(user, mapping.csvColumnName) /\ Truthy(user[mapping.csvColumnName])
    THEN trim(user[mapping.csvColumnName])
    ELSE IF Truthy(mapping.defaultValue) THEN trim(mapping.defaultValue)
    ELSE <<>>

\* value.toLowerCase() === 'true' || ... === 'yes' || value === '1' || ... 'on' || ... 'da'
shouldCheck_compat(value) ==
    toLowerCase(value) \in { <<"t","r","u","e">>, <<"y","e","s">>, <<"1">>, <<"o","n">>, <<"d","a">> }

\* The same test in handleXFAForm, which leaves out 'on'.
shouldCheck_xfa(value) ==
    toLowerCase(value) \in { <<"t","r","u","e">>, <<"y","e","s">>, <<"1">>, <<"d","a">> }

XFATextMaxLength == 50

RetryTextLength == 100

\* fields.find(f => same name, or one name containing the other, lowercased).
findMatchingField(doc, name) ==
    LET target == toLowerCase(name)
        hit(i) == LET fieldName == toLowerCase(doc.fields[i].name)
                  IN  \/ fieldName = target
                      \/ includes(fieldName, target)
                      \/ includes(target, fieldName)
    IN  IF \E i \in DOMAIN doc.fields : hit(i)
        THEN CHOOSE i \in DOMAIN doc.fields : hit(i) /\ \A j \in DOMAIN doc.fields : hit(j) => i <= j
        ELSE 0

\* The alternative field access of lines 797-854, after getField or a setter raised.
alternativeAccess(doc, mapping, value) ==
    LET found(i) ==
            IF i = 0 THEN doc
            ELSE LET f == doc.fields[i]
                 IN  IF f.throws THEN doc
                     ELSE IF f.type = "Text"
                     THEN SetValue(doc, i, [state |-> "text", v |-> value])
                     ELSE IF f.type = "CheckBox"
                     THEN SetValue(doc, i, [state |-> IF shouldCheck_compat(value)
                                                      THEN "checked" ELSE "unchecked",
                                            v |-> <<>>])
                     ELSE IF f.type \in {"Radio", "Dropdown"} /\ value \in Range(f.options)
                     THEN SetValue(doc, i, [state |-> "selected", v |-> value])
                     ELSE doc
    IN  found(findMatchingField(doc, mapping.pdfFieldName))

\* The body of the loop of lines 711-859 for one mapping that has a data source.
fillField_compat(doc, mapping, user) ==
    LET value == resolveValue_compat(mapping, user)
        i == getField(doc, mapping.pdfFieldName)
    IN  IF i = 0
        THEN [doc |-> alternativeAccess(doc, mapping, value), raised |-> TRUE]
        ELSE LET f == doc.fields[i]
             IN  IF f.type = "Text"
                 THEN IF ~f.throws
                      THEN [doc |-> SetValue(doc, i, [state |-> "text", v |-> value]),
                            raised |-> FALSE]
                      ELSE IF Len(value) > RetryTextLength
                      THEN [doc |-> alternativeAccess(doc, mapping, value), raised |-> TRUE]
                      ELSE [doc |-> doc, raised |-> TRUE]
                 ELSE IF f.type = "CheckBox"
                 THEN IF f.throws THEN [doc |-> doc, raised |-> TRUE]
                      ELSE [doc |-> SetValue(doc, i, [state |-> IF shouldCheck_compat(value)
                                                                THEN "checked" ELSE "unchecked",
                                                      v |-> <<>>]),
                            raised |-> FALSE]
                 ELSE IF f.type \in {"Radio", "Dropdown"}
                 THEN IF f.throws THEN [doc |-> doc, raised |-> TRUE]
                      ELSE IF value \in Range(f.options)
                      THEN [doc |-> SetValue(doc, i, [state |-> "selected", v |-> value]),
                            raised |-> FALSE]
                      ELSE IF partialMatch(f.options, value) # 0
                      THEN [doc |-> SetValue(doc, i,
                                       [state |-> "selected",
                                        v |-> f.options[partialMatch(f.options, value)]]),
                            raised |-> FALSE]
                      ELSE [doc |-> doc, raised |-> FALSE]
                 ELSE [doc |-> doc, raised |-> FALSE]

\* The body of the loop of handleXFAForm (lines 952-983) for one mapping.
fillField_xfa(doc, mapping, user) ==
    LET value == resolveValue_compat(mapping, user)
        i == getField(doc, mapping.pdfFieldName)
    IN  IF i = 0 THEN [doc |-> doc, raised |-> TRUE]
        ELSE LET f == doc.fields[i]
             IN  IF f.type = "Text"
                 THEN IF f.throws THEN [doc |-> doc, raised |-> TRUE]
                      ELSE [doc |-> SetValue(doc, i,
                                       [state |-> "text",
                                        v |-> substring(value, XFATextMaxLength)]),
                            raised |-> FALSE]
                 ELSE IF f.type = "CheckBox"
                 THEN IF f.throws THEN [doc |-> doc, raised |-> TRUE]
                      ELSE [doc |-> SetValue(doc, i, [state |-> IF shouldCheck_xfa(value)
                                                                THEN "checked" ELSE "unchecked",
                                                      v |-> <<>>]),
                            raised |-> FALSE]
                 ELSE [doc |-> doc, raised |-> FALSE]

\* Either loop: every mapping with a data source is attempted.
RECURSIVE fillAll_compat(_, _, _, _, _)
fillAll_compat(acc, fieldMappings, user, k, xfa) ==
    IF k > Len(fieldMappings) THEN acc
    ELSE IF ~HasDataSource(fieldMappings[k])
    THEN fillAll_compat(acc, fieldMappings, user, k + 1, xfa)
    ELSE LET next(r) ==
                 fillAll_compat([doc |-> r.doc,
                                 filled |-> acc.filled
                                     + (IF r.doc.values # acc.doc.values THEN 1 ELSE 0),
                                 attempted |-> Append(acc.attempted,
                                                      fieldMappings[k].pdfFieldName),
                                 raised |-> acc.raised \/ r.raised],
                                fieldMappings, user, k + 1, xfa)
         IN  next(IF xfa THEN fillField_xfa(acc.doc, fieldMappings[k], user)
                  ELSE fillField_compat(acc.doc, fieldMappings[k], user))

\* handleXFAForm of pdfGeneration.ts (lines 938-1008); a save that raises is
\* rethrown to generateSinglePDF, which returns the original.
handleXFAForm_compat(pdfDoc, fileData, user, fieldMappings, env, exc) ==
    LET appearances == pdfDoc.formOk /\ ~env.appearanceThrows
        flags == [NoFlags EXCEPT !.formAppearances = appearances]
        save(fill, exc2) ==
            IF env.save.throws
            THEN RunRecord("compat", Uint8ArrayView(fileData), TRUE, exc2 \cup {"save"},
                           "skipped", fill, flags)
            ELSE RunRecord("compat",
                           Save([fill.doc EXCEPT !.appearances = appearances],
                                env.save, FALSE),
                           TRUE, exc2, "skipped", fill, flags)
        filled(fill) ==
            save(fill,
                 exc \cup (IF pdfDoc.formOk THEN {} ELSE {"form"})
                     \cup FieldExceptions(fill)
                     \cup (IF pdfDoc.formOk /\ env.appearanceThrows
                           THEN {"appearance"} ELSE {}))
    IN  filled(IF pdfDoc.formOk
               THEN fillAll_compat([doc |-> pdfDoc, filled |-> 0, attempted |-> <<>>,
                                    raised |-> FALSE], fieldMappings, user, 1, TRUE)
               ELSE [doc |-> pdfDoc, filled |-> 0, attempted |-> <<>>, raised |-> FALSE])

\* createFallbackPDF (lines 1010-1029): save the document as loaded.
createFallbackPDF(pdfDoc, fileData, env, exc) ==
    IF env.save.throws
    THEN RunRecord("compat", Uint8ArrayView(fileData), FALSE, exc \cup {"save"}, "skipped",
                   NoFill, NoFlags)
    ELSE RunRecord("compat", Save(pdfDoc, env.save, FALSE), FALSE, exc, "skipped",
                   NoFill, NoFlags)

generateSinglePDF_compat(t, fileData, user, fieldMappings, env) ==
    IF ~fileData.parses
    THEN RunRecord("compat", Uint8ArrayView(fileData), FALSE, {"load"}, "skipped",
                   NoFill, NoFlags)
    ELSE LET pdfDoc == PDFDocumentLoad(Uint8ArrayView(fileData), t)
             exc == IF env.scanThrows THEN {"classification"} ELSE {}
         IN  IF isXFAForm_compat(fileData.text, env.scanThrows)
             THEN handleXFAForm_compat(pdfDoc, fileData, user, fieldMappings, env, exc)
             ELSE IF ~pdfDoc.formOk
             THEN createFallbackPDF(pdfDoc, fileData, env, exc \cup {"form"})
             ELSE LET \* try { updateFieldAppearances(); flatten() }
                      \* catch { try { updateFieldAppearances() } catch {} }
                      flattened == ~env.appearanceThrows /\ ~env.flattenThrows
                      appearances == ~env.appearanceThrows
                      flags == [flattened |-> flattened, formAppearances |-> appearances,
                                saveAppearances |-> TRUE]
                      save(fill, exc2) ==
                          IF env.save.throws
                          THEN RunRecord("compat", Uint8ArrayView(fileData), FALSE,
                                         exc2 \cup {"save"}, "skipped", fill, flags)
                          ELSE RunRecord("compat",
                                         Save([fill.doc EXCEPT !.flattened = flattened,
                                                               !.appearances = appearances],
                                              env.save, TRUE),
                                         FALSE, exc2, "skipped", fill, flags)
                      filled(fill) ==
                          save(fill,
                               exc \cup FieldExceptions(fill)
                                   \cup (IF env.appearanceThrows THEN {"appearance"} ELSE {})
                                   \cup (IF ~env.appearanceThrows /\ env.flattenThrows
                                         THEN {"flatten"} ELSE {}))
                  IN  filled(fillAll_compat([doc |-> pdfDoc, filled |-> 0,
                                             attempted |-> <<>>, raised |-> FALSE],
                                            fieldMappings, user, 1, FALSE))

(***************************************************************************)
(* unnamed/part_004: the first engine, whose load and save are outside     *)
(* every try block, and its generateBulkPDFs.                              *)
(***************************************************************************)
\* user[mapping.csvColumnName] || mapping.defaultValue || '', not trimmed.
resolveValue_legacy(mapping, user) ==
    IF HasColumn(user, mapping.csvColumnName) /\ Truthy(user[mapping.csvColumnName])
    THEN user[mapping.csvColumnName]
    ELSE mapping.defaultValue

shouldCheck_legacy(value) ==
    toLowerCase(value) \in { <<"t","r","u","e">>, <<"y","e","s">>, <<"1">>, <<"o","n">> }

\* The setters of lines 31-55 and 69-91 on the field of index i.
setField_legacy(doc, i, value) ==
    LET f == doc.fields[i]
    IN  IF f.type = "Text" THEN SetValue(doc, i, [state |-> "text", v |-> value])
        ELSE IF f.type = "CheckBox"
        THEN SetValue(doc, i, [state |-> IF shouldCheck_legacy(value)
                                         THEN "checked" ELSE "unchecked", v |-> <<>>])
        ELSE IF f.type \in {"Radio", "Dropdown"} /\ value \in Range(f.options)
        THEN SetValue(doc, i, [state |-> "selected", v |-> value])
        ELSE doc

\* fields.find(f => f.getName().toLowerCase() === name.toLowerCase()).
findFieldIgnoreCase(doc, name) ==
    LET hit(i) == toLowerCase(doc.fields[i].name) = toLowerCase(name)
    IN  IF \E i \in DOMAIN doc.fields : hit(i)
        THEN CHOOSE i \in DOMAIN doc.fields : hit(i) /\ \A j \in DOMAIN doc.fields : hit(j) => i <= j
        ELSE 0

\* The body of the loop of lines 19-99 for one mapping.
fillField_legacy(doc, mapping, user) ==
    LET value == resolveValue_legacy(mapping, user)
        alternate(j) == IF j = 0 \/ doc.fields[j].throws THEN doc
                        ELSE setField_legacy(doc, j, value)
        caught == [doc |-> alternate(findFieldIgnoreCase(doc, mapping.pdfFieldName)),
                   raised |-> TRUE]
        fill(i) == IF i = 0 \/ doc.fields[i].throws THEN caught
                   ELSE [doc |-> setField_legacy(doc, i, value), raised |-> FALSE]
    IN  fill(getField(doc, mapping.pdfFieldName))

RECURSIVE fillAll_legacy(_, _, _, _)
fillAll_legacy(acc, fieldMappings, user, k) ==
    IF k > Len(fieldMappings) THEN acc
    ELSE LET next(r) ==
                 fillAll_legacy([doc |-> r.doc,
                                 filled |-> acc.filled
                                     + (IF r.doc.values # acc.doc.values THEN 1 ELSE 0),
                                 attempted |-> Append(acc.attempted,
                                                      fieldMappings[k].pdfFieldName),
                                 raised |-> acc.raised \/ r.raised],
                                fieldMappings, user, k + 1)
         IN  next(fillField_legacy(acc.doc, fieldMappings[k], user))

\* A call that ended by raising what exceptions holds.
Raised(impl, exceptions) ==
    [RunRecord(impl, [buf |-> "none", data |-> <<>>], FALSE, exceptions, "skipped",
               NoFill, NoFlags) EXCEPT !.raised = TRUE]

\* generateSinglePDF of part_004: PDFDocument.load (line 12) and pdfDoc.save
\* (line 116) are guarded by nothing.
generateSinglePDF_legacy(t, fileData, user, fieldMappings, env) ==
    IF ~fileData.parses THEN Raised("legacy", {"load"})
    ELSE LET pdfDoc == PDFDocumentLoad(Uint8ArrayView(fileData), t)
             flattened == pdfDoc.formOk /\ ~env.flattenThrows
             flags == [NoFlags EXCEPT !.flattened = flattened]
             save(fill, exc) ==
                 IF env.save.throws THEN Raised("legacy", exc \cup {"save"})
                 ELSE RunRecord("legacy",
                                Save([fill.doc EXCEPT !.flattened = flattened],
                                     env.save, FALSE),
                                FALSE, exc, "skipped", fill, flags)
             filled(fill) ==
                 save(fill,
                      (IF pdfDoc.formOk THEN {} ELSE {"form"})
                      \cup FieldExceptions(fill)
                      \cup (IF pdfDoc.formOk /\ env.flattenThrows THEN {"flatten"} ELSE {}))
         IN  filled(IF pdfDoc.formOk
                    THEN fillAll_legacy([doc |-> pdfDoc, filled |-> 0, attempted |-> <<>>,
                                         raised |-> FALSE], fieldMappings, user, 1)
                    ELSE [doc |-> pdfDoc, filled |-> 0, attempted |-> <<>>,
                          raised |-> FALSE])

(***************************************************************************)
(* Field discovery: extractFormFields of pdfGeneration.ts (first class),   *)
(* of part_004 and of part_002.  Of the bytes a document keeps what the    *)
(* scans read: whether pdf-lib parses them, the pages, the form, and the   *)
(* captures of each scanner's patterns, in pattern and byte order.         *)
(***************************************************************************)
Entry(name, type) == [name |-> name, type |-> type]

\* The catalog type of a pdf-lib field, by the name of its class.
catalogType(field) ==
    IF field.type = "CheckBox" THEN "checkbox"
    ELSE IF field.type = "Radio" THEN "radio"
    ELSE IF field.type = "Dropdown" THEN "dropdown"
    ELSE "text"

\* Method 1: the fields of the form, none when the form is inaccessible.
standardFields(doc) ==
    IF doc.formOk THEN [k \in DOMAIN doc.fields |->
                           Entry(doc.fields[k].name, catalogType(doc.fields[k]))]
    ELSE <<>>

guessFieldType(name) ==
    LET lowerName == toLowerCase(name)
    IN  IF includes(lowerName, <<"c","h","e","c","k","b","o","x">>)
           \/ includes(lowerName, <<"c","h","e","c","k">>)
           \/ includes(lowerName, <<"m","i","n","o","r">>)
           \/ includes(lowerName, <<"e","l","e","c","t","r","i","c">>)
           \/ includes(lowerName, <<"h","i","b","r","i","d">>)
           \/ includes(lowerName, <<"r","e","p","r","e","z","e","n","t","a","n","t">>)
           \/ includes(lowerName, <<"b","e","n","e","f","i","c","i","a","r">>)
        THEN "checkbox"
        ELSE IF includes(lowerName, <<"d","r","o","p","d","o","w","n">>)
           \/ includes(lowerName, <<"s","e","l","e","c","t">>)
           \/ includes(lowerName, <<"j","u","d","e","t">>)
           \/ includes(lowerName, <<"l","o","c","a","l","i","t","a","t","e">>)
           \/ includes(lowerName, <<"t","i","p","_">>)
           \/ includes(lowerName, <<"a","u","t","o","v","e","h","i","c","u","l">>)
        THEN "dropdown"
        ELSE IF includes(lowerName, <<"e","m","a","i","l">>)
        THEN "text"
        ELSE IF includes(lowerName, <<"d","a","t","a">>)
           \/ includes(lowerName, <<"d","a","t","e">>)
           \/ includes(lowerName, <<"e","l","i","b","e","r","a","t">>)
           \/ includes(lowerName, <<"e","m","i","s">>)
        THEN "date"
        ELSE IF includes(lowerName, <<"s","u","m","a">>)
           \/ includes(lowerName, <<"n","u","m","a","r">>)
           \/ includes(lowerName, <<"c","o","d">>)
           \/ includes(lowerName, <<"t","e","l","e","f","o","n">>)
           \/ includes(lowerName, <<"c","n","p">>)
           \/ includes(lowerName, <<"e","c","o","t","i","c","h","e","t","e">>)
        THEN "number"
        ELSE "text"

\* guessFieldType of part_004.
guessFieldType_legacy(name) ==
    LET lowerName == toLowerCase(name)
    IN  IF includes(lowerName, <<"c","h","e","c","k","b","o","x">>)
           \/ includes(lowerName, <<"c","h","e","c","k">>)
           \/ includes(lowerName, <<"m","i","n","o","r">>)
           \/ includes(lowerName, <<"e","l","e","c","t","r","i","c">>)
           \/ includes(lowerName, <<"h","i","b","r","i","d">>)
           \/ includes(lowerName, <<"r","e","p","r","e","z","e","n","t","a","n","t">>)
        THEN "checkbox"
        ELSE IF includes(lowerName, <<"d","r","o","p","d","o","w","n">>)
           \/ includes(lowerName, <<"s","e","l","e","c","t">>)
           \/ includes(lowerName, <<"j","u","d","e","t">>)
           \/ includes(lowerName, <<"l","o","c","a","l","i","t","a","t","e">>)
           \/ includes(lowerName, <<"t","i","p","_">>)
        THEN "dropdown"
        ELSE IF includes(lowerName, <<"e","m","a","i","l">>)
        THEN "text"
        ELSE IF includes(lowerName, <<"d","a","t","a">>)
           \/ includes(lowerName, <<"d","a","t","e">>)
        THEN "date"
        ELSE IF includes(lowerName, <<"s","u","m","a">>)
           \/ includes(lowerName, <<"n","u","m","a","r">>)
           \/ includes(lowerName, <<"c","o","d">>)
           \/ includes(lowerName, <<"t","e","l","e","f","o","n">>)
        THEN "number"
        ELSE "text"

\* Array.from(new Set(...)) over the captures that pass isValidFieldName
\* after trim: the valid names in the order of their first occurrence.
\* The same loop collecting into a list, which keeps a name seen again.
RECURSIVE validNames_KeepsDuplicates(_, _, _)
validNames_KeepsDuplicates(matches, k, acc) ==
    IF k > Len(matches) THEN acc
    ELSE validNames_KeepsDuplicates(matches, k + 1,
                                    IF isValidFieldName(trim(matches[k]))
                                    THEN Append(acc, trim(matches[k])) ELSE acc)

RECURSIVE validNames(_, _, _)
validNames(matches, k, acc) ==
    IF k > Len(matches) THEN acc
    ELSE LET fieldName == trim(matches[k])
         IN  validNames(matches, k + 1,
                        IF isValidFieldName(fieldName) /\ fieldName \notin Range(acc)
                        THEN Append(acc, fieldName) ELSE acc)

\* extractFieldsFromRawPDF (Method 2).
extractFieldsFromRawPDF(doc) ==
    LET typed(names) == [k \in DOMAIN names |-> Entry(names[k], guessFieldType(names[k]))]
    IN  typed(validNames(doc.rawMatches, 1, <<>>))

extractFieldsFromRawPDF_legacy(doc) ==
    LET typed(names) == [k \in DOMAIN names |-> Entry(names[k], guessFieldType_legacy(names[k]))]
    IN  typed(validNames(doc.rawMatches, 1, <<>>))

commonRomanianFields ==
    <<
      Entry(<<"n","u","m","e","_","s","o","l","i","c","i","t","a","n","t">>, "text"),
      Entry(<<"p","r","e","n","u","m","e","_","s","o","l","i","c","i","t","a","n","t">>, "text"),
      Entry(<<"c","n","p">>, "text"), Entry(<<"s","e","r","i","a","_","c","i">>, "text"),
      Entry(<<"n","u","m","a","r","_","c","i">>, "text"),
      Entry(<<"e","l","i","b","e","r","a","t","_","d","e">>, "text"),
      Entry(<<"d","a","t","a","_","e","l","i","b","e","r","a","r","e">>, "date"),
      Entry(<<"t","e","l","e","f","o","n">>, "text"), Entry(<<"e","m","a","i","l">>, "text"),
      Entry(<<"j","u","d","e","t">>, "dropdown"),
      Entry(<<"l","o","c","a","l","i","t","a","t","e">>, "text"),
      Entry(<<"s","t","r","a","d","a">>, "text"),
      Entry(<<"n","u","m","a","r","_","s","t","r","a","d","a">>, "text"),
      Entry(<<"b","l","o","c">>, "text"), Entry(<<"s","c","a","r","a">>, "text"),
      Entry(<<"e","t","a","j">>, "text"),
      Entry(<<"a","p","a","r","t","a","m","e","n","t">>, "text"),
      Entry(<<"c","o","d","_","p","o","s","t","a","l">>, "text"),
      Entry(<<"b","e","n","e","f","i","c","i","a","r","_","m","i","n","o","r">>, "checkbox"),
      Entry(<<"t","i","p","_","a","u","t","o","v","e","h","i","c","u","l">>, "dropdown"),
      Entry(<<"a","u","t","o","v","e","h","i","c","u","l","_","e","l","e","c","t","r","i","c">>, "checkbox"),
      Entry(<<"a","u","t","o","v","e","h","i","c","u","l","_","h","i","b","r","i","d">>, "checkbox"),
      Entry(<<"s","u","m","a","_","s","o","l","i","c","i","t","a","t","a">>, "number"),
      Entry(<<"n","u","m","a","r","_","e","c","o","t","i","c","h","e","t","e">>, "number"),
      Entry(<<"r","e","p","r","e","z","e","n","t","a","n","t","_","l","e","g","a","l">>, "checkbox"),
      Entry(<<"i","m","p","u","t","e","r","n","i","c","i","t">>, "checkbox") >>

\* extractRomanianFormFields (Method 3 of pdfGeneration.ts): the names its
\* patterns capture or, when there is none, the common Romanian fields.
extractRomanianFormFields(doc) ==
    LET typed(names) ==
            IF names # <<>>
            THEN [k \in DOMAIN names |-> Entry(names[k], guessFieldType(names[k]))]
            ELSE commonRomanianFields
    IN  typed(validNames(doc.romanianMatches, 1, <<>>))

StandardThreshold == 5

RomanianThreshold == 10

Found(fields, pageCount, stage) ==
    [status |-> "returned", fields |-> fields, pageCount |-> pageCount, stage |-> stage]

\* extractFormFields rejected: PDFDocument.load raised and the catch block
\* rethrows.
Rejected == [status |-> "raised", fields |-> <<>>, pageCount |-> 0, stage |-> "load"]

\* extractFormFields of pdfGeneration.ts (lines 261-367).
extractFormFields(doc) ==
    IF ~doc.parseable THEN Rejected
    ELSE LET result(method3) == Found(method3.fields, doc.pageCount, method3.stage)
             romanian(method2, romanianFields) ==
                 result(IF Len(method2.fields) < RomanianThreshold
                           /\ Len(romanianFields) > Len(method2.fields)
                        THEN [fields |-> romanianFields,
                              stage |-> IF validNames(doc.romanianMatches, 1, <<>>) # <<>>
                                        THEN "romanian" ELSE "placeholder"]
                        ELSE method2)
             raw(isXFA, method1, rawFields) ==
                 romanian(IF (Len(method1) < StandardThreshold \/ isXFA)
                             /\ Len(rawFields) > Len(method1)
                          THEN [fields |-> rawFields, stage |-> "raw"]
                          ELSE [fields |-> method1, stage |-> "standard"],
                          extractRomanianFormFields(doc))
         IN  raw(isXFAForm_compat(doc.text, FALSE), standardFields(doc),
                 extractFieldsFromRawPDF(doc))

\* A number in decimal, as a template literal prints it.
RECURSIVE numberToString(_)
numberToString(n) ==
    LET digit(d) == <<"0", "1", "2", "3", "4", "5", "6", "7", "8", "9">>[d + 1]
    IN  IF n < 10 THEN <<digit(n)>> ELSE numberToString(n \div 10) \o <<digit(n % 10)>>

RandomBase == 3

RandomRange == 8

\* Math.floor(Math.random() * 8) + 3.
RandomFieldCounts == RandomBase .. (RandomBase + RandomRange - 1)

\* extractFieldsFromAnnotations of part_004 (Method 3): for every page on
\* which pageDict.get('Annots') yields a value, fieldCount[page] fields.
RECURSIVE extractFieldsFromAnnotations(_, _, _)
extractFieldsFromAnnotations(doc, fieldCount, pageIndex) ==
    IF pageIndex >= doc.pageCount THEN <<>>
    ELSE (IF doc.annotations[pageIndex + 1]
          THEN [i \in 1..fieldCount[pageIndex + 1] |->
                   Entry(<<"p","a","g","e">> \o numberToString(pageIndex + 1) \o <<"_","f","i","e","l","d">>
                             \o numberToString(i), "text")]
          ELSE <<>>)
         \o extractFieldsFromAnnotations(doc, fieldCount, pageIndex + 1)

genericRomanianFields ==
    <<
      <<"b","e","n","e","f","i","c","i","a","r","_","m","i","n","o","r">>,
      <<"t","i","p","_","a","u","t","o","v","e","h","i","c","u","l">>,
      <<"n","u","m","e","_","s","o","l","i","c","i","t","a","n","t">>,
      <<"p","r","e","n","u","m","e","_","s","o","l","i","c","i","t","a","n","t">>,
      <<"c","o","d","_","n","u","m","e","r","i","c","_","p","e","r","s","o","n","a","l">>,
      <<"s","e","r","i","a">>, <<"n","u","m","a","r">>,
      <<"e","l","i","b","e","r","a","t","_","d","e">>,
      <<"d","a","t","a","_","e","l","i","b","e","r","a","r","e">>,
      <<"d","o","m","i","c","i","l","i","u","_","j","u","d","e","t">>,
      <<"l","o","c","a","l","i","t","a","t","e">>, <<"s","t","r","a","d","a">>,
      <<"n","u","m","a","r","_","s","t","r","a","d","a">>, <<"b","l","o","c">>,
      <<"s","c","a","r","a">>, <<"e","t","a","j">>,
      <<"a","p","a","r","t","a","m","e","n","t">>,
      <<"c","o","d","_","p","o","s","t","a","l">>, <<"t","e","l","e","f","o","n">>,
      <<"e","m","a","i","l">>,
      <<"r","e","p","r","e","z","e","n","t","a","n","t","_","l","e","g","a","l">>,
      <<"i","m","p","u","t","e","r","n","i","c","i","t">>,
      <<"n","u","m","e","_","r","e","p","r","e","z","e","n","t","a","n","t">>,
      <<"p","r","e","n","u","m","e","_","r","e","p","r","e","z","e","n","t","a","n","t">>,
      <<"s","u","m","a","_","s","o","l","i","c","i","t","a","t","a">>,
      <<"n","u","m","a","r","_","e","c","o","t","i","c","h","e","t","e">>,
      <<"a","u","t","o","v","e","h","i","c","u","l","_","e","l","e","c","t","r","i","c">>,
      <<"a","u","t","o","v","e","h","i","c","u","l","_","h","i","b","r","i","d">> >>

\* extractXFAFields of part_004 (Method 4).
extractXFAFields(doc) ==
    LET typed(listed) ==
            [k \in DOMAIN listed |-> Entry(listed[k], guessFieldType_legacy(listed[k]))]
        orGeneric(names) == typed(IF names # <<>> THEN names ELSE genericRomanianFields)
    IN  orGeneric(validNames(doc.xfaMatches, 1, <<>>))

LegacyThreshold == 10

\* One stage of part_004's cascade: below the threshold, a longer list wins.
legacyStage(current, candidate, stage) ==
    IF Len(current.fields) < LegacyThreshold /\ Len(candidate) > Len(current.fields)
    THEN [fields |-> candidate, stage |-> stage]
    ELSE current

\* extractFormFields of part_004 (lines 172-281).
extractFormFields_legacy(doc, fieldCount) ==
    IF ~doc.parseable THEN Rejected
    ELSE LET method1 == [fields |-> standardFields(doc), stage |-> "standard"]
             method2 == legacyStage(method1, extractFieldsFromRawPDF_legacy(doc), "raw")
             method3 == legacyStage(method2,
                                    extractFieldsFromAnnotations(doc, fieldCount, 0),
                                    "annotations")
             method4 == legacyStage(method3, extractXFAFields(doc),
                                    IF validNames(doc.xfaMatches, 1, <<>>) # <<>>
                                    THEN "xfa" ELSE "placeholder")
             result(found) == Found(found.fields, doc.pageCount, found.stage)
         IN  result(method4)

alternativeSkipped == { <<"f","o","r","m">>, <<"d","a","t","a">>, <<"t","e","m","p","l","a","t","e">>, <<"s","u","b","f","o","r","m">>, <<"e","x","D","a","t","a">>, <<"b","i","n","d">> }

\* The names of part_002's alternative extraction (lines 217-276): captures
\* without a space and outside the skip list, each once.
RECURSIVE alternativeNames(_, _, _)
alternativeNames(matches, k, acc) ==
    IF k > Len(matches) THEN acc
    ELSE LET fieldName == matches[k]
         IN  alternativeNames(matches, k + 1,
                 IF ~includes(fieldName, <<" ">>)
                    /\ toLowerCase(fieldName) \notin alternativeSkipped
                    /\ fieldName \notin Range(acc)
                 THEN Append(acc, fieldName) ELSE acc)

\* extractFormFields of part_002 (lines 172-340).
extractFormFields_first(doc) ==
    IF ~doc.parseable THEN Rejected
    ELSE LET method1 == standardFields(doc)
             names == alternativeNames(doc.alternativeMatches, 1, <<>>)
             alternative == [k \in DOMAIN names |-> Entry(names[k], "text")]
             placeholders ==
                 [i \in 1..doc.pageCount |->
                     Entry(<<"f","i","e","l","d","_","p","a","g","e">> \o numberToString(i) \o <<"_","1">>, "text")]
         IN  IF method1 # <<>> THEN Found(method1, doc.pageCount, "standard")
             ELSE IF alternative # <<>> THEN Found(alternative, doc.pageCount, "raw")
             ELSE IF doc.hasAppearances
             THEN Found(placeholders, doc.pageCount, "placeholder")
             ELSE Found(<<>>, doc.pageCount, "none")

(***************************************************************************)
(* Inputs of the engine: templates, mapping lists, data records and the    *)
(* outcomes of the pdf-lib calls.                                          *)
(***************************************************************************)
Field(name, type, options, throws) ==
    [name |-> name, type |-> type, options |-> options, throws |-> throws]

\* A form with a text, a checkbox and a dropdown; the setter of telefon raises.
FormFields ==
    << Field(<<"n","u","m","e">>, "Text", <<>>, FALSE),
       Field(<<"p","r","e","n","u","m","e">>, "Text", <<>>, FALSE),
       Field(<<"e","m","a","i","l">>, "Text", <<>>, FALSE),
       Field(<<"t","e","l","e","f","o","n">>, "Text", <<>>, TRUE),
       Field(<<"a","b","o","n","a","t">>, "CheckBox", <<>>, FALSE),
       Field(<<"j","u","d","e","t">>, "Dropdown", << <<"C","l","u","j">>, <<"B","u","c","u","r","e","s","t","i">> >>, FALSE) >>

Template(text, size, parseable, formOk, fields) ==
    [text |-> text, size |-> size, empty |-> (size = 0), parseable |-> parseable,
     formOk |-> formOk, fields |-> fields]

PlainText == <<"%","P","D","F","-","1",".","7"," ","/","A","c","r","o","F","o","r","m">>

XfaText == <<"%","P","D","F","-","1",".","7"," ","/","X","F","A">>

GovText == <<"%","P","D","F","-","1",".","7"," ","C","E","R","E","R","E">>

TemplateSize == 2000

Templates ==
    { Template(PlainText, TemplateSize, TRUE, TRUE, FormFields),
      Template(XfaText, TemplateSize, TRUE, TRUE, FormFields),
      Template(GovText, TemplateSize, TRUE, TRUE, FormFields),
      Template(PlainText, TemplateSize, TRUE, FALSE, <<>>),
      Template(XfaText, TemplateSize, TRUE, FALSE, <<>>),
      Template(PlainText, TemplateSize, FALSE, FALSE, <<>>),
      Template(<<>>, 0, FALSE, FALSE, <<>>) }

Mapping(pdfFieldName, csvColumnName, defaultValue) ==
    [pdfFieldName |-> pdfFieldName, csvColumnName |-> csvColumnName,
     defaultValue |-> defaultValue]

MappingPool ==
    { Mapping(<<"n","u","m","e">>, <<"n","u","m","e">>, <<>>),
      Mapping(<<"N","u","m","e">>, <<"n","u","m","e">>, <<>>),
      Mapping(<<"p","r","e","n","u","m","e">>, <<"p","r","e","n","u","m","e">>, <<"I","o","n">>),
      Mapping(<<"e","m","a","i","l">>, <<>>, <<"a","@","b",".","r","o">>),
      Mapping(<<"t","e","l","e","f","o","n">>, <<"t","e","l","e","f","o","n">>, <<>>),
      Mapping(<<"t","e","l","e","f","o","n","_","f","i","x">>, <<"t","e","l","e","f","o","n">>, <<>>),
      Mapping(<<"a","b","o","n","a","t">>, <<>>, <<"O","n">>) }

MaxMappings == 4

\* The lists of at most MaxMappings distinct mappings of the pool, in any order.
MappingLists ==
    { s \in UNION { [1..n -> MappingPool] : n \in 0..MaxMappings } :
        \A i, j \in DOMAIN s : i # j => s[i] # s[j] }

Users ==
    { [c \in { <<"i","d">>, <<"n","u","m","e">>, <<"p","r","e","n","u","m","e">>, <<"t","e","l","e","f","o","n">> } |->
          CASE c = <<"i","d">> -> <<"1">>
            [] c = <<"n","u","m","e">> -> <<"P","o","p">>
            [] c = <<"p","r","e","n","u","m","e">> -> <<>>
            [] OTHER -> <<"0","7","2","1">> ],
      [c \in { <<"i","d">>, <<"n","u","m","e">> } |->
          CASE c = <<"i","d">> -> <<"2">>
            [] OTHER -> <<" ","A","n","a"," ","P","o","p"," ">> ] }

SaveOutcome(throws, size, header, parses) ==
    [throws |-> throws, size |-> size, header |-> header, parses |-> parses]

\* pdfDoc.save raises, or yields bytes that pass validation, are below the
\* minimum size, lack the %PDF- header or do not re-parse.
SaveOutcomes ==
    { SaveOutcome(TRUE, 0, FALSE, FALSE),
      SaveOutcome(FALSE, MinViableSize, TRUE, TRUE),
      SaveOutcome(FALSE, MinViableSize - 1, TRUE, TRUE),
      SaveOutcome(FALSE, MinViableSize, FALSE, TRUE),
      SaveOutcome(FALSE, MinViableSize, TRUE, FALSE) }

\* For the engines that do not inspect the saved bytes: save raises or not.
PlainSaveOutcomes ==
    { SaveOutcome(TRUE, 0, FALSE, FALSE), SaveOutcome(FALSE, MinViableSize, TRUE, TRUE) }

Envs ==
    [scanThrows : BOOLEAN, save : PlainSaveOutcomes, appearanceThrows : BOOLEAN,
     flattenThrows : BOOLEAN]

NoRun ==
    [impl |-> "none", given |-> TRUE, raised |-> FALSE,
     out |-> [buf |-> "none", data |-> <<>>],
     isXFA |-> FALSE, exceptions |-> {}, validated |-> "skipped", attempted |-> <<>>,
     filled |-> 0, flattened |-> FALSE, formAppearances |-> FALSE,
     saveAppearances |-> FALSE]

NoContent == [buf |-> "none", data |-> <<>>]

BulkIdle ==
    [impl |-> "none", phase |-> "idle", i |-> 0, zip |-> <<>>, progress |-> <<>>,
     successCount |-> 0, errorCount |-> 0, caught |-> <<>>]

NoResult == [status |-> "none", fields |-> <<>>, pageCount |-> 0, stage |-> "none"]

Document(size, parseable, text, pageCount, formOk, fields, annotations, scans) ==
    [size |-> size, parseable |-> parseable, text |-> text, pageCount |-> pageCount,
     formOk |-> formOk, fields |-> fields, annotations |-> annotations,
     rawMatches |-> scans.raw, romanianMatches |-> scans.romanian,
     xfaMatches |-> scans.xfa, alternativeMatches |-> scans.alternative,
     hasAppearances |-> scans.appearances]

NoScans ==
    [raw |-> <<>>, romanian |-> <<>>, xfa |-> <<>>, alternative |-> <<>>,
     appearances |-> FALSE]

\* The 0-byte document: pdf-lib finds no header in it.
EmptyDocument == Document(0, FALSE, <<>>, 0, FALSE, <<>>, <<>>, NoScans)

DiscoveryIdle ==
    /\ pdfData = EmptyDocument
    /\ discovery = [impl |-> "none", first |-> NoResult, second |-> NoResult]

\* UsersList before any click: no selection, no run, no pending timeout.
ComponentIdle ==
    component = [selected |-> 0, status |-> "idle", runs |-> <<>>, timeouts |-> 0]

NamesIdle ==
    /\ nameCand = <<>>
    /\ nameVerdict = [checked |-> FALSE, service |-> FALSE, utils |-> FALSE]

\* Before the call: every pdf-lib call would succeed.
NoEnv ==
    [scanThrows |-> FALSE, save |-> SaveOutcome(FALSE, MinViableSize, TRUE, TRUE),
     appearanceThrows |-> FALSE, flattenThrows |-> FALSE]

Init ==
    /\ tpl \in Templates
    /\ templateFileData = TemplateData(tpl)
    /\ mappings \in MappingLists
    /\ userData \in Users
    /\ pdfLib = NoEnv
    /\ last = NoRun
    /\ users = <<>>
    /\ bulk = BulkIdle
    /\ DiscoveryIdle
    /\ NamesIdle
    /\ ComponentIdle

\* What the storage of template.fileData holds once the call has returned
\* out: a buffer on that storage shows its content.
StorageAfter(fileData, out) == IF out.buf = "fileData" THEN out.data ELSE fileData

\* The call has returned run under the outcomes env.
Returned(run, env) ==
    /\ last' = run
    /\ pdfLib' = env
    /\ templateFileData' = StorageAfter(templateFileData, run.out)
    /\ UNCHANGED <<tpl, mappings, userData, nameVars, component, bulkVars, discoveryVars>>

\* generateSinglePDF of part_003 called without a mapping list: line 14 reads
\* fieldMappings.length before the try block is entered.
generateSinglePDF_absent ==
    [Raised("conservative", {"arguments"}) EXCEPT !.given = FALSE]

\* One call of generateSinglePDF of part_003, with the mapping list or, where
\* the section holds no mapping, possibly with none.
GenerateSingle ==
    /\ bulk.phase = "idle"
    /\ last.impl = "none"
    /\ \E env \in [scanThrows : BOOLEAN, save : SaveOutcomes,
                   appearanceThrows : {FALSE}, flattenThrows : {FALSE}] :
          \/ Returned(generateSinglePDF(tpl, templateFileData, userData, mappings, env),
                      env)
          \/ /\ mappings = <<>>
             /\ Returned(generateSinglePDF_absent, env)

\* One call of generateSinglePDF of pdfGeneration.ts, first class.
GenerateSingleBasic ==
    /\ bulk.phase = "idle"
    /\ last.impl = "none"
    /\ \E env \in [scanThrows : {FALSE}, save : PlainSaveOutcomes,
                   appearanceThrows : BOOLEAN, flattenThrows : {FALSE}] :
          Returned(generateSinglePDF_basic(tpl, templateFileData, userData, mappings, env),
                   env)

\* One call of generateSinglePDF of pdfGeneration.ts, second class.
GenerateSingleCompat ==
    /\ bulk.phase = "idle"
    /\ last.impl = "none"
    /\ \E env \in Envs :
          Returned(generateSinglePDF_compat(tpl, templateFileData, userData, mappings, env),
                   env)

Next == GenerateSingle \/ GenerateSingleBasic \/ GenerateSingleCompat

Spec == Init /\ [][Next]_vars

(***************************************************************************)
(* The same calls on a form with choice fields: a dropdown and a radio     *)
(* group, with records whose values match an option exactly, in part, in   *)
(* another case, or not at all.                                            *)
(***************************************************************************)
MaxChoiceMappings == 2

InitChoice ==
    LET ChoiceFields ==
            << Field(<<"j","u","d","e","t">>, "Dropdown",
                     << <<"C","l","u","j">>, <<"B","u","c","u","r","e","s","t","i">> >>, FALSE),
               Field(<<"s","e","x">>, "Radio", << <<"M">>, <<"F">> >>, FALSE),
               Field(<<"n","u","m","e">>, "Text", <<>>, FALSE) >>
        ChoiceMappingPool ==
            { Mapping(<<"j","u","d","e","t">>, <<"j","u","d","e","t">>, <<"b","u","c">>),
              Mapping(<<"s","e","x">>, <<"s","e","x">>, <<>>),
              Mapping(<<"n","u","m","e">>, <<"n","u","m","e">>, <<>>) }
        ChoiceUsers ==
            { [c \in { <<"i","d">>, <<"n","u","m","e">>, <<"j","u","d","e","t">>, <<"s","e","x">> } |->
                  CASE c = <<"i","d">> -> <<"1">>
                    [] c = <<"n","u","m","e">> -> <<"P","o","p">>
                    [] c = <<"j","u","d","e","t">> -> <<"C","l","u","j">>
                    [] OTHER -> <<"f">> ],
              [c \in { <<"i","d">>, <<"j","u","d","e","t">>, <<"s","e","x">> } |->
                  CASE c = <<"i","d">> -> <<"2">>
                    [] c = <<"j","u","d","e","t">> -> <<"I","a","s","i">>
                    [] OTHER -> <<"M">> ],
              [c \in { <<"i","d">>, <<"s","e","x">> } |->
                  CASE c = <<"i","d">> -> <<"3">>
                    [] OTHER -> <<"X">> ] }
    IN  /\ tpl \in { Template(PlainText, TemplateSize, TRUE, TRUE, ChoiceFields),
                     Template(XfaText, TemplateSize, TRUE, TRUE, ChoiceFields) }
        /\ templateFileData = TemplateData(tpl)
        /\ mappings \in { m \in UNION { [1..n -> ChoiceMappingPool] :
                                          n \in 0..MaxChoiceMappings } :
                            \A i, j \in DOMAIN m : i # j => m[i] # m[j] }
        /\ userData \in ChoiceUsers
        /\ pdfLib = NoEnv
        /\ last = NoRun
        /\ users = <<>>
        /\ bulk = BulkIdle
        /\ DiscoveryIdle
        /\ NamesIdle
        /\ ComponentIdle

SpecChoice == InitChoice /\ [][Next]_vars

(***************************************************************************)
(* The same calls on a form of text fields, with records whose values hold *)
(* a form feed, a tab, or more characters than any cap of the source.      *)
(***************************************************************************)
LongValueLength == 501

InitText ==
    LET TextFields ==
            << Field(<<"n","u","m","e">>, "Text", <<>>, FALSE),
               Field(<<"p","r","e","n","u","m","e">>, "Text", <<>>, FALSE) >>
        nume == Mapping(<<"n","u","m","e">>, <<"n","u","m","e">>, <<>>)
        prenume == Mapping(<<"p","r","e","n","u","m","e">>, <<"p","r","e","n","u","m","e">>,
                           <<"I","o","n">>)
        TextUser(id, value) ==
            [c \in { <<"i","d">>, <<"n","u","m","e">> } |->
                IF c = <<"i","d">> THEN id ELSE value]
        TextUsers ==
            { TextUser(<<"1">>, <<"P","o","\f","p">>),
              TextUser(<<"2">>, <<"P","o","\t","p">>),
              TextUser(<<"3">>, [k \in 1..LongValueLength |-> "a"]) }
    IN  /\ tpl \in { Template(PlainText, TemplateSize, TRUE, TRUE, TextFields),
                     Template(XfaText, TemplateSize, TRUE, TRUE, TextFields) }
        /\ templateFileData = TemplateData(tpl)
        /\ mappings \in { <<>>, <<nume>>, <<prenume>>, <<nume, prenume>>, <<prenume, nume>> }
        /\ userData \in TextUsers
        /\ pdfLib = NoEnv
        /\ last = NoRun
        /\ users = <<>>
        /\ bulk = BulkIdle
        /\ DiscoveryIdle
        /\ NamesIdle
        /\ ComponentIdle

SpecText == InitText /\ [][Next]_vars

(***************************************************************************)
(* The same calls with more critical mappings than the Complex path fills, *)
(* one of them without a column and without a default, one not critical.   *)
(***************************************************************************)
InitCritical ==
    LET CriticalPool ==
            { Mapping(<<"N","u","m","e">>, <<"n","u","m","e">>, <<>>),
              Mapping(<<"p","r","e","n","u","m","e">>, <<>>, <<>>),
              Mapping(<<"e","m","a","i","l">>, <<>>, <<"a","@","b",".","r","o">>),
              Mapping(<<"t","e","l","e","f","o","n">>, <<"t","e","l","e","f","o","n">>, <<>>),
              Mapping(<<"a","b","o","n","a","t">>, <<>>, <<"O","n">>) }
        CriticalUser ==
            [c \in { <<"i","d">>, <<"n","u","m","e">>, <<"t","e","l","e","f","o","n">> } |->
                CASE c = <<"i","d">> -> <<"1">>
                  [] c = <<"n","u","m","e">> -> <<"P","o","p">>
                  [] OTHER -> <<"0","7","2","1">> ]
    IN  /\ tpl \in { Template(PlainText, TemplateSize, TRUE, TRUE, FormFields),
                     Template(XfaText, TemplateSize, TRUE, TRUE, FormFields) }
        /\ templateFileData = TemplateData(tpl)
        /\ mappings \in { m \in UNION { [1..n -> CriticalPool] : n \in 0..MaxMappings } :
                            \A i, j \in DOMAIN m : i # j => m[i] # m[j] }
        /\ userData = CriticalUser
        /\ pdfLib = NoEnv
        /\ last = NoRun
        /\ users = <<>>
        /\ bulk = BulkIdle
        /\ DiscoveryIdle
        /\ NamesIdle
        /\ ComponentIdle

SpecCritical == InitCritical /\ [][Next]_vars

\* The engine at rest while the name validators run.
FillIdle ==
    /\ tpl = Template(PlainText, TemplateSize, TRUE, TRUE, FormFields)
    /\ templateFileData = TemplateData(tpl)
    /\ mappings = <<>>
    /\ userData \in Users
    /\ pdfLib = NoEnv
    /\ last = NoRun
    /\ users = <<>>
    /\ bulk = BulkIdle
    /\ DiscoveryIdle

(***************************************************************************)
(* generateBulkPDFs of part_003 and of part_004: one action per iteration  *)
(* of the loop over the records, one for what follows the loop.            *)
(***************************************************************************)
IsAlnum(c) == IsLetter(c) \/ c \in Digits

\* .replace(/\s+/g, '_'): every run of white space becomes one underscore.
RECURSIVE collapseWhiteSpace(_, _)
collapseWhiteSpace(str, k) ==
    IF k > Len(str) THEN <<>>
    ELSE IF str[k] \in WhiteSpace
    THEN (IF k > 1 /\ str[k - 1] \in WhiteSpace THEN <<>> ELSE <<"_">>)
         \o collapseWhiteSpace(str, k + 1)
    ELSE <<str[k]>> \o collapseWhiteSpace(str, k + 1)

FileNameLength == 20

\* The name part of a file name in part_003 (lines 457-460).
sanitizeFileName(value) ==
    LET keep(c) == IsAlnum(c) \/ c \in WhiteSpace
    IN  substring(collapseWhiteSpace(SelectSeq(value, keep), 1), FileNameLength)

\* The name part in part_004 (line 150): every other character becomes '_'.
sanitizeFileName_legacy(value) ==
    [k \in DOMAIN value |-> IF IsAlnum(value[k]) THEN value[k] ELSE "_"]

nameFields == << <<"n","u","m","e">>, <<"n","a","m","e">>, <<"f","i","r","s","t","_","n","a","m","e">>, <<"p","r","e","n","u","m","e">>, <<"n","u","m","e","_","s","o","l","i","c","i","t","a","n","t">> >>

nameFields_legacy == { <<"n","a","m","e">>, <<"f","u","l","l","_","n","a","m","e">>, <<"f","u","l","l","n","a","m","e">>, <<"f","i","r","s","t","_","n","a","m","e">>, <<"l","a","s","t","n","a","m","e">> }

\* fieldMappings.find(...): the first mapping whose column names a person.
findNameField(fieldMappings, legacy) ==
    LET hit(m) ==
            /\ Truthy(m.csvColumnName)
            /\ IF legacy THEN toLowerCase(m.csvColumnName) \in nameFields_legacy
               ELSE \E n \in DOMAIN nameFields :
                       includes(toLowerCase(m.csvColumnName), toLowerCase(nameFields[n]))
        found == SelectSeq(fieldMappings, hit)
    IN  IF found = <<>> THEN <<>> ELSE <<Head(found)>>

sectionName == <<"s","e","c","t","i","e">>

IdColumn == <<"i","d">>

\* The file name of a record's PDF.
fileName(user, fieldMappings, legacy) ==
    LET plain == sectionName \o <<"_">> \o user[IdColumn] \o <<".","p","d","f">>
        named(name) ==
            IF legacy \/ Truthy(name)
            THEN sectionName \o <<"_">> \o name \o <<"_">> \o user[IdColumn] \o <<".","p","d","f">>
            ELSE plain
        with(nameField) ==
            IF nameField # <<>> /\ HasColumn(user, nameField[1].csvColumnName)
               /\ Truthy(user[nameField[1].csvColumnName])
            THEN named(IF legacy
                       THEN sanitizeFileName_legacy(user[nameField[1].csvColumnName])
                       ELSE sanitizeFileName(user[nameField[1].csvColumnName]))
            ELSE plain
    IN  with(findNameField(fieldMappings, legacy))

errorFileName(user) == <<"E","R","R","O","R","_">> \o user[IdColumn] \o <<".","t","x","t">>

summaryFileName == <<"G","E","N","E","R","A","T","I","O","N","_","S","U","M","M","A","R","Y",".","t","x","t">>

\* zip.file(name, content): an entry of that name is replaced.
zipFile(zip, name, kind, content) ==
    LET entry == [name |-> name, kind |-> kind, content |-> content]
    IN  IF \E k \in DOMAIN zip : zip[k].name = name
        THEN [k \in DOMAIN zip |-> IF zip[k].name = name THEN entry ELSE zip[k]]
        ELSE Append(zip, entry)

MaxUsers == 2

\* A third record, whose name has characters a file name drops.
ThirdUser ==
    [c \in { <<"i","d">>, <<"n","u","m","e">>, <<"p","r","e","n","u","m","e">> } |->
        CASE c = <<"i","d">> -> <<"3">>
          [] c = <<"n","u","m","e">> -> <<"D","'","A","r","c"," "," ","A","n","a","-","M","a","r","i","a">>
          [] OTHER -> <<"I","o","a","n","a">> ]

\* The batches: at most MaxUsers records of distinct ids.
UserLists ==
    { u \in UNION { [1..n -> Users \cup {ThirdUser}] : n \in 0..MaxUsers } :
        \A a, b \in DOMAIN u : a # b => u[a] # u[b] }

BulkTemplates ==
    { Template(PlainText, TemplateSize, TRUE, TRUE, FormFields),
      Template(XfaText, TemplateSize, TRUE, TRUE, FormFields),
      Template(PlainText, TemplateSize, FALSE, FALSE, <<>>) }

BulkMappingLists == { m \in MappingLists : Len(m) = 1 }

\* The outcomes of one record's call: generateSinglePDF replaced by a stub
\* that raises, or the outcome of its pdfDoc.save.
BulkEnvs ==
    [stubThrows : BOOLEAN,
     env : [scanThrows : {FALSE}, save : PlainSaveOutcomes,
            appearanceThrows : {FALSE}, flattenThrows : {FALSE}]]

InitBulk ==
    /\ tpl \in BulkTemplates
    /\ templateFileData = TemplateData(tpl)
    /\ mappings \in BulkMappingLists
    /\ users \in UserLists
    /\ userData = <<>>
    /\ pdfLib = NoEnv
    /\ last = NoRun
    /\ bulk \in { [BulkIdle EXCEPT !.impl = impl, !.phase = "running"] :
                    impl \in {"conservative", "legacy"} }
    /\ DiscoveryIdle
    /\ NamesIdle
    /\ ComponentIdle

\* A progress event that counts the record being handled as done.
Progress_CountsAhead(current, total, status) ==
    [current |-> IF status = "processing" THEN current + 1 ELSE current,
     total |-> total, status |-> status]

Progress(current, total, status) ==
    [current |-> current, total |-> total, status |-> status]

\* One iteration of the loop of part_003 (lines 433-480) for record i + 1.
BulkIteration ==
    /\ bulk.impl = "conservative"
    /\ bulk.phase = "running"
    /\ bulk.i < Len(users)
    /\ \E e \in BulkEnvs :
        LET user == users[bulk.i + 1]
            progress == Append(bulk.progress, Progress(bulk.i, Len(users), "processing"))
            iterated(run) ==
                /\ bulk' =
                    IF ~run.raised
                    THEN [bulk EXCEPT !.progress = progress,
                                      !.zip = zipFile(@, fileName(user, mappings, FALSE),
                                                      "pdf", run.out),
                                      !.successCount = @ + 1,
                                      !.i = @ + 1]
                    ELSE [bulk EXCEPT !.progress = progress,
                                      !.errorCount = @ + 1,
                                      !.zip = zipFile(@, errorFileName(user), "error",
                                                      NoContent),
                                      !.caught = Append(@, bulk.i + 1),
                                      !.i = @ + 1]
                /\ last' = run
                /\ pdfLib' = e.env
                /\ templateFileData' = StorageAfter(templateFileData, run.out)
        IN  iterated(IF e.stubThrows THEN Raised("conservative", {"stub"})
                     ELSE generateSinglePDF(tpl, templateFileData, user, mappings, e.env))
    /\ UNCHANGED <<tpl, mappings, userData, users, nameVars, component, discoveryVars>>

\* The summary text of part_003 (lines 483-493), as the numbers it prints; the
\* success rate is (successCount / total * 100).toFixed(1), held in tenths of
\* a percent, and NaN for an empty batch.
summary(total, successCount, errorCount) ==
    [buf |-> "text",
     data |-> [total |-> total, successful |-> successCount, errors |-> errorCount,
               rate |-> IF total = 0 THEN "NaN"
                        ELSE ToString((2000 * successCount + total) \div (2 * total))]]

\* What follows the loop in part_003 (lines 482-504).
BulkCompletion ==
    /\ bulk.impl = "conservative"
    /\ bulk.phase = "running"
    /\ bulk.i = Len(users)
    /\ bulk' = [bulk EXCEPT !.zip = zipFile(@, summaryFileName, "summary",
                                            summary(Len(users), bulk.successCount,
                                                    bulk.errorCount)),
                            !.progress = Append(@, Progress(Len(users), Len(users),
                                                            "completed")),
                            !.phase = "done"]
    /\ UNCHANGED <<fillVars, users, nameVars, component, discoveryVars>>

\* One iteration of the loop of part_004 (lines 128-158): its catch block
\* only logs.
BulkIteration_legacy ==
    /\ bulk.impl = "legacy"
    /\ bulk.phase = "running"
    /\ bulk.i < Len(users)
    /\ \E e \in { b \in BulkEnvs : ~b.stubThrows } :
        LET user == users[bulk.i + 1]
            progress == Append(bulk.progress, Progress(bulk.i, Len(users), "processing"))
            iterated(run) ==
                /\ bulk' =
                    IF ~run.raised
                    THEN [bulk EXCEPT !.progress = progress,
                                      !.zip = zipFile(@, fileName(user, mappings, TRUE),
                                                      "pdf", run.out),
                                      !.i = @ + 1]
                    ELSE [bulk EXCEPT !.progress = progress,
                                      !.caught = Append(@, bulk.i + 1),
                                      !.i = @ + 1]
                /\ last' = run
                /\ pdfLib' = e.env
                /\ templateFileData' = StorageAfter(templateFileData, run.out)
        IN  iterated(generateSinglePDF_legacy(tpl, templateFileData, user, mappings,
                                              e.env))
    /\ UNCHANGED <<tpl, mappings, userData, users, nameVars, component, discoveryVars>>

\* What follows the loop in part_004 (lines 160-168).
BulkCompletion_legacy ==
    /\ bulk.impl = "legacy"
    /\ bulk.phase = "running"
    /\ bulk.i = Len(users)
    /\ bulk' = [bulk EXCEPT !.progress = Append(@, Progress(Len(users), Len(users),
                                                            "completed")),
                            !.phase = "done"]
    /\ UNCHANGED <<fillVars, users, nameVars, component, discoveryVars>>

NextBulk ==
    BulkIteration \/ BulkCompletion \/ BulkIteration_legacy \/ BulkCompletion_legacy

SpecBulk == InitBulk /\ [][NextBulk]_vars

(***************************************************************************)
(* The same batches on records whose ids are values of the imported file's *)
(* own id column (DataConfiguration.tsx, line 134: the row's columns are   *)
(* spread over the generated id), some of which read like a name and an id.*)
(***************************************************************************)
InitNaming ==
    LET NamingRecord(id, nume) ==
            [c \in { <<"i","d">>, <<"n","u","m","e">> } |->
                IF c = <<"i","d">> THEN id ELSE nume]
        NamingUsers ==
            { NamingRecord(<<"1">>, <<"P","o","p">>),
              NamingRecord(<<"2">>, <<"P","o","p">>),
              NamingRecord(<<"P","o","p","_","1">>, <<>>),
              NamingRecord(<<"P","o","p","_","2">>, <<"A","n","a">>) }
    IN  /\ tpl \in { Template(PlainText, TemplateSize, TRUE, TRUE, FormFields),
                     Template(PlainText, TemplateSize, FALSE, FALSE, <<>>) }
        /\ templateFileData = TemplateData(tpl)
        /\ mappings \in { << Mapping(<<"n","u","m","e">>, <<"n","u","m","e">>, <<>>) >>,
                          << Mapping(<<"e","m","a","i","l">>, <<"e","m","a","i","l">>, <<>>) >> }
        /\ users \in { u \in UNION { [1..n -> NamingUsers] : n \in 0..MaxUsers } :
                          \A a, b \in DOMAIN u : a # b => u[a][IdColumn] # u[b][IdColumn] }
        /\ userData = <<>>
        /\ pdfLib = NoEnv
        /\ last = NoRun
        /\ bulk \in { [BulkIdle EXCEPT !.impl = impl, !.phase = "running"] :
                        impl \in {"conservative", "legacy"} }
        /\ DiscoveryIdle
        /\ NamesIdle
        /\ ComponentIdle

SpecNaming == InitNaming /\ [][NextBulk]_vars

\* Single calls and batches together.
InitAll == Init \/ InitBulk

NextAll ==
    \/ GenerateSingle
    \/ GenerateSingleBasic
    \/ GenerateSingleCompat
    \/ BulkIteration
    \/ BulkCompletion
    \/ BulkIteration_legacy
    \/ BulkCompletion_legacy

SpecAll == InitAll /\ [][NextAll]_vars

(***************************************************************************)
(* generatePDFs of UsersList.tsx: the component's own progress updates     *)
(* around the service's.  bulk.progress holds every update of the run in   *)
(* the order the store receives them.                                      *)
(***************************************************************************)
\* The component returns before line 66 unless a template is loaded and a
\* record is selected.
InitRun ==
    /\ tpl \in BulkTemplates
    /\ templateFileData = TemplateData(tpl)
    /\ mappings \in BulkMappingLists
    /\ users \in { u \in UserLists : Len(u) > 0 }
    /\ userData = <<>>
    /\ pdfLib = NoEnv
    /\ last = NoRun
    /\ bulk = [BulkIdle EXCEPT !.impl = "conservative", !.phase = "selected"]
    /\ DiscoveryIdle
    /\ NamesIdle
    /\ ComponentIdle

\* Lines 66-70: the update before the try block.
GeneratePDFsStart ==
    /\ bulk.phase = "selected"
    /\ bulk' = [bulk EXCEPT !.progress = <<Progress(0, Len(users), "processing")>>,
                            !.phase = IF Len(users) = 1 THEN "single" ELSE "running"]
    /\ UNCHANGED <<fillVars, users, nameVars, component, discoveryVars>>

\* Lines 75-91 and 113-133, one record selected: generateSinglePDF, the
\* download, then the update of the try block or of the catch block.
GeneratePDFsSingle ==
    /\ bulk.phase = "single"
    /\ \E e \in BulkEnvs, downloadThrows \in BOOLEAN :
        LET settled(run) ==
                /\ bulk' =
                    IF run.raised \/ downloadThrows
                    THEN [bulk EXCEPT !.progress = Append(@, Progress(0, Len(users), "error")),
                                      !.phase = "failed"]
                    ELSE [bulk EXCEPT !.progress = Append(@, Progress(Len(users), Len(users),
                                                                      "completed")),
                                      !.phase = "finished"]
                /\ last' = run
                /\ pdfLib' = e.env
                /\ templateFileData' = StorageAfter(templateFileData, run.out)
        IN  settled(IF e.stubThrows THEN Raised("conservative", {"stub"})
                    ELSE generateSinglePDF(tpl, templateFileData, users[1], mappings, e.env))
    /\ UNCHANGED <<tpl, mappings, userData, users, nameVars, component, discoveryVars>>

\* Lines 93-133, several records selected, once generateBulkPDFs has come to
\* its return statement: zip.generateAsync settles, the archive is
\* downloaded, then the update of the try block or of the catch block.
GeneratePDFsSettle ==
    /\ bulk.impl = "conservative"
    /\ bulk.phase = "done"
    /\ \E zipThrows, downloadThrows \in BOOLEAN :
        bulk' =
            IF zipThrows \/ downloadThrows
            THEN [bulk EXCEPT !.progress = Append(@, Progress(0, Len(users), "error")),
                              !.phase = "failed"]
            ELSE [bulk EXCEPT !.progress = Append(@, Progress(Len(users), Len(users),
                                                              "completed")),
                              !.phase = "finished"]
    /\ UNCHANGED <<fillVars, users, nameVars, component, discoveryVars>>

NextRun ==
    \/ GeneratePDFsStart
    \/ GeneratePDFsSingle
    \/ BulkIteration
    \/ BulkCompletion
    \/ GeneratePDFsSettle

SpecRun == InitRun /\ [][NextRun]_vars

(***************************************************************************)
(* UsersList.tsx as the user drives it: selections, clicks on the Generate *)
(* button, and the asynchronous steps of each invocation of generatePDFs.  *)
(* component.runs holds one entry per invocation: how many records it took *)
(* from the selection and where it stands.  The store behind               *)
(* setGenerationProgress and resetGenerationProgress keeps the last status *)
(* given to it; its reset yields the status 'idle' of types/index.ts.      *)
(***************************************************************************)
MaxRuns == 2

InitClicks ==
    /\ FillIdle
    /\ NamesIdle
    /\ ComponentIdle

Run(total, at) == [total |-> total, at |-> at]

\* Lines 31-47: handleUserSelect and handleSelectAll change the selection.
handleUserSelect ==
    /\ \E n \in 0..MaxUsers :
          /\ n # component.selected
          /\ component' = [component EXCEPT !.selected = n]
    /\ UNCHANGED <<fillVars, bulkVars, nameVars, discoveryVars>>

\* Lines 217-219 and 49-55: a click on the enabled Generate button invokes
\* generatePDFs, which runs up to its await of getTemplateFile.
generatePDFs ==
    /\ Len(component.runs) < MaxRuns
    /\ ~(component.selected = 0 \/ component.status = "processing")
    /\ component' = [component EXCEPT !.runs = Append(@, Run(component.selected, "fetching"))]
    /\ UNCHANGED <<fillVars, bulkVars, nameVars, discoveryVars>>

\* Lines 55-70: getTemplateFile settles; without data the invocation returns,
\* with data it sets the status to 'processing' and calls the service.
getTemplateFile ==
    /\ \E r \in DOMAIN component.runs, hasData \in BOOLEAN :
          /\ component.runs[r].at = "fetching"
          /\ component' =
                IF hasData
                THEN [component EXCEPT !.runs[r].at = "generating", !.status = "processing"]
                ELSE [component EXCEPT !.runs[r].at = "returned"]
    /\ UNCHANGED <<fillVars, bulkVars, nameVars, discoveryVars>>

\* Line 100 with part_003:437-441 and 497-501: an event of generateBulkPDFs
\* reaches setGenerationProgress; after its 'completed' event the service
\* still builds the archive.
onProgress ==
    /\ \E r \in DOMAIN component.runs, status \in {"processing", "completed"} :
          /\ component.runs[r].at = "generating"
          /\ component.runs[r].total > 1
          /\ component' =
                [component EXCEPT !.status = status,
                                  !.runs[r].at = IF status = "completed" THEN "archiving"
                                                 ELSE @]
    /\ UNCHANGED <<fillVars, bulkVars, nameVars, discoveryVars>>

\* Lines 72-134: the service call settles and the download is made; the try
\* block ends with 'completed' and schedules the reset, the catch block
\* ends with 'error'.
generatePDFsSettle ==
    /\ \E r \in DOMAIN component.runs, throws \in BOOLEAN :
          /\ \/ component.runs[r].at = "generating" /\ component.runs[r].total = 1
             \/ component.runs[r].at = "archiving"
          /\ component' =
                IF throws
                THEN [component EXCEPT !.status = "error", !.runs[r].at = "returned"]
                ELSE [component EXCEPT !.status = "completed", !.runs[r].at = "returned",
                                       !.timeouts = @ + 1]
    /\ UNCHANGED <<fillVars, bulkVars, nameVars, discoveryVars>>

\* Lines 121-124: the timeout of a finished invocation fires.
resetTimeout ==
    /\ component.timeouts > 0
    /\ component' = [component EXCEPT !.selected = 0, !.status = "idle",
                                      !.timeouts = @ - 1]
    /\ UNCHANGED <<fillVars, bulkVars, nameVars, discoveryVars>>

NextClicks ==
    \/ handleUserSelect
    \/ generatePDFs
    \/ getTemplateFile
    \/ onProgress
    \/ generatePDFsSettle
    \/ resetTimeout

SpecClicks == InitClicks /\ [][NextClicks]_vars

(***************************************************************************)
(* Discovery as a specification: two calls of extractFormFields on the     *)
(* same bytes.                                                             *)
(***************************************************************************)
DiscoveryDocuments ==
    { EmptyDocument,
      Document(TemplateSize, FALSE, <<"g","a","r","b","a","g","e">>, 0, FALSE, <<>>, <<>>, NoScans),
      Document(TemplateSize, TRUE, PlainText, 1, TRUE, FormFields, <<TRUE>>,
               [NoScans EXCEPT !.raw = << <<"n","u","m","e">>, <<"p","r","e","n","u","m","e">> >>, !.alternative = << <<"n","u","m","e">>, <<"p","r","e","n","u","m","e">> >>]),
      Document(TemplateSize, TRUE, PlainText, 1, FALSE, <<>>, <<FALSE>>,
               [raw |-> << <<" ","n","u","m","e","_","s","o","l","i","c","i","t","a","n","t">>, <<"<","x","f","a",":","t","e","m","p","l","a","t","e",">">>, <<"n","u","m","e","_","s","o","l","i","c","i","t","a","n","t">>, <<"c","n","p">>, <<"1","2">> >>,
                romanian |-> << <<"n","u","m","e">>, <<"c","n","p">>, <<"n","u","m","e">> >>,
                xfa |-> << <<"s","u","b","f","o","r","m">>, <<"n","u","m","e","_","s","o","l","i","c","i","t","a","n","t">> >>,
                alternative |-> << <<"n","u","m","e","_","s","o","l","i","c","i","t","a","n","t">>, <<"F","o","r","m">>, <<"n","u","m","e"," ","s","o","l","i","c","i","t","a","n","t">>, <<"n","u","m","e","_","s","o","l","i","c","i","t","a","n","t">> >>,
                appearances |-> TRUE]),
      Document(TemplateSize, TRUE, PlainText, 2, TRUE, <<>>, <<TRUE, TRUE>>,
               [NoScans EXCEPT !.appearances = TRUE]),
      Document(TemplateSize, TRUE, PlainText, 1, TRUE, <<>>, <<FALSE>>, NoScans),
      Document(TemplateSize, TRUE, XfaText, 1, TRUE, SubSeq(FormFields, 1, 2), <<TRUE>>,
               [NoScans EXCEPT !.raw = << <<"n","u","m","e">>, <<"p","r","e","n","u","m","e">> >>, !.xfa = << <<"n","u","m","e">>, <<"p","r","e","n","u","m","e">>, <<"c","n","p">>, <<"e","m","a","i","l">> >>]),
      Document(TemplateSize, TRUE, XfaText, 1, TRUE,
               [k \in 1..RomanianThreshold |->
                   Field(commonRomanianFields[k].name, "Text", <<>>, FALSE)],
               <<TRUE>>,
               [NoScans EXCEPT !.raw = [k \in 1..(RomanianThreshold + 1) |->
                                           commonRomanianFields[k].name]]) }

InitDiscovery ==
    /\ pdfData \in DiscoveryDocuments
    /\ discovery \in { [impl |-> impl, first |-> NoResult, second |-> NoResult] :
                         impl \in {"service", "legacy", "first"} }
    /\ tpl = Template(PlainText, TemplateSize, TRUE, TRUE, FormFields)
    /\ templateFileData = TemplateData(tpl)
    /\ mappings = <<>>
    /\ userData = <<>>
    /\ pdfLib = NoEnv
    /\ last = NoRun
    /\ users = <<>>
    /\ bulk = BulkIdle
    /\ NamesIdle
    /\ ComponentIdle

\* The call has settled with result: the first call, then the second.
Settled(result) ==
    /\ discovery.second.status = "none"
    /\ discovery' = IF discovery.first.status = "none"
                    THEN [discovery EXCEPT !.first = result]
                    ELSE [discovery EXCEPT !.second = result]
    /\ UNCHANGED <<pdfData, fillVars, bulkVars, nameVars, component>>

\* One call of extractFormFields of pdfGeneration.ts.
ExtractFormFields ==
    /\ discovery.impl = "service"
    /\ Settled(extractFormFields(pdfData))

\* One call of extractFormFields of part_004, Math.random giving fieldCount.
ExtractFormFields_legacy ==
    /\ discovery.impl = "legacy"
    /\ \E fieldCount \in [1..pdfData.pageCount -> RandomFieldCounts] :
          Settled(extractFormFields_legacy(pdfData, fieldCount))

\* One call of extractFormFields of part_002.
ExtractFormFields_first ==
    /\ discovery.impl = "first"
    /\ Settled(extractFormFields_first(pdfData))

NextDiscovery == ExtractFormFields \/ ExtractFormFields_legacy \/ ExtractFormFields_first

SpecDiscovery == InitDiscovery /\ [][NextDiscovery]_vars

(***************************************************************************)
(* The name validators as a specification of their own.                    *)
(***************************************************************************)
InitNames ==
    /\ nameCand \in Candidates
    /\ nameVerdict = [checked |-> FALSE, service |-> FALSE, utils |-> FALSE]
    /\ FillIdle
    /\ ComponentIdle

\* One call of each validator on the candidate.
ValidateName ==
    /\ ~nameVerdict.checked
    /\ nameVerdict' = [checked |-> TRUE,
                       service |-> isValidFieldName(nameCand),
                       utils   |-> utilsIsValidFieldName(nameCand)]
    /\ UNCHANGED <<nameCand, fillVars, bulkVars, discoveryVars, component>>

NextNames == ValidateName

SpecNames == InitNames /\ [][NextNames]_vars

(***************************************************************************)
(* Claims.                                                                 *)
(***************************************************************************)
C9_Acceptable(name, denylist) ==
    /\ Len(name) >= 2
    /\ Len(name) <= 100
    /\ \E i \in DOMAIN name : IsLetter(name[i])
    /\ toLowerCase(name) \notin denylist
    /\ ~(\E p \in urlSchemes : startsWith(toLowerCase(name), p))
    /\ toLowerCase(name) \notin booleanTokens
    /\ ~(name # <<>> /\ \A i \in DOMAIN name : name[i] \in Digits)
    /\ ~(\E e \in fileExtensions : endsWith(toLowerCase(name), e))

\* C9: a validator accepts a candidate only if its length is within [2, 100],
\* it contains a letter, it is no denylisted structural or software token and
\* it does not look like a URL, a boolean literal, a pure number or a file
\* extension; "<xfa:template>" is rejected and "nume_solicitant" is accepted.
C9_NameValidation ==
    nameVerdict.checked =>
        /\ (nameVerdict.service =>
                C9_Acceptable(nameCand, structuralTokens \cup softwareTokens))
        /\ (nameVerdict.utils =>
                C9_Acceptable(nameCand, utilsStructuralTokens \cup utilsXmlAttributeTokens
                                            \cup utilsSoftwareTokens))
        /\ (nameCand = <<"<","x","f","a",":","t","e","m","p","l","a","t","e",">">> => ~nameVerdict.service /\ ~nameVerdict.utils)
        /\ (nameCand = <<"n","u","m","e","_","s","o","l","i","c","i","t","a","n","t">> => nameVerdict.service /\ nameVerdict.utils)

C9_Witness ==
    /\ nameVerdict.checked
    /\ nameCand = <<"n","u","m","e","_","s","o","l","i","c","i","t","a","n","t">>
    /\ nameVerdict.service

\* The call returned a buffer whose bytes are the template's original bytes.
ReturnsOriginal == last.out.data = TemplateData(tpl)

\* C1 as stated: generateSinglePDF never raises, and an exception raised at
\* any step of the call ends it with the template's original bytes.
C1_AnyExceptionReturnsOriginal ==
    last.impl \in {"conservative", "basic"} =>
        /\ ~last.raised
        /\ (last.exceptions # {} => ReturnsOriginal)

\* A call of pdfGeneration.ts in which form access raised and the re-saved
\* bytes, not the original ones, came back.
C1_FormAccessAbsorbed ==
    /\ last.impl = "basic"
    /\ "form" \in last.exceptions
    /\ ~last.raised
    /\ last.out.buf = "saved"
    /\ ~ReturnsOriginal

\* The part of C1 the code keeps: generateSinglePDF never raises; an exception
\* at the empty template check, at document load or at save (and, in part_003, at form
\* access or in the re-parse of validation) ends the call with the original
\* bytes, while an exception of classification, of one field's fill or of the
\* appearance update (and, in pdfGeneration.ts, of form access) is absorbed.
C1_NeverRaises ==
    last.impl \in {"conservative", "basic"} =>
        /\ ~last.raised
        /\ (last.exceptions \cap {"empty", "load", "save"} # {} => ReturnsOriginal)
        /\ (last.impl = "conservative" /\ last.exceptions \cap {"form", "validation"} # {}
                => ReturnsOriginal)

C1_Witness ==
    /\ last.impl = "conservative"
    /\ "save" \in last.exceptions
    /\ last.filled > 0
    /\ ReturnsOriginal

\* C2: when validateGeneratedPDF returns false for the saved bytes, the bytes
\* generateSinglePDF returns are the template's bytes.
C2_FallbackSafety ==
    (last.impl = "conservative" /\ last.validated = "failed") => ReturnsOriginal

C2_Witness ==
    /\ last.impl = "conservative"
    /\ last.validated = "failed"
    /\ last.filled > 0
    /\ ReturnsOriginal

\* C3: on every path, for Simple and Complex documents alike, a returned
\* buffer that is not the original bytes has passed validation: it re-parses,
\* has at least the minimum viable size and begins with %PDF-.
C3_NeverUnvalidated ==
    (last.impl = "conservative" /\ ~ReturnsOriginal) =>
        /\ last.validated = "passed"
        /\ validateGeneratedPDF(last.out)

\* A call of part_003 on a Complex document that returned saved bytes below
\* the minimum viable size, validation never having run.
C3_UnvalidatedReturned ==
    /\ last.impl = "conservative"
    /\ last.isXFA
    /\ last.validated = "skipped"
    /\ last.out.buf = "saved"
    /\ last.out.data.size < MinViableSize
    /\ ~ReturnsOriginal

\* C4: for a document classified Complex and more mappings than the bound of
\* the priority subset, the fill step attempts at most that many fields.
C4_ComplexRestraint ==
    (last.impl \in {"conservative", "compat"} /\ last.isXFA
        /\ Len(mappings) > MaxCriticalFields)
        => Len(last.attempted) <= MaxCriticalFields

\* A call of pdfGeneration.ts, second class, on a Complex document that
\* attempted every one of four mappings.
C4_AllMappingsAttempted ==
    /\ last.impl = "compat"
    /\ last.isXFA
    /\ Len(mappings) = 4
    /\ Len(last.attempted) = 4

\* The mappings whose field exists in the template.
C5_Valid(m) == \E i \in DOMAIN tpl.fields : tpl.fields[i].name = m.pdfFieldName

\* The same call without the mappings that name a nonexistent field.
C5_Reference ==
    LET valid == SelectSeq(mappings, C5_Valid)
    IN  IF last.impl = "conservative"
        THEN generateSinglePDF(tpl, TemplateData(tpl), userData, valid, pdfLib)
        ELSE generateSinglePDF_basic(tpl, TemplateData(tpl), userData, valid, pdfLib)

\* C5: a mapping that names a nonexistent field changes the fill outcome
\* (filled or not, and the value written) of no valid mapping of the record,
\* whatever its position in the list.
C5_PerFieldIsolation ==
    (last.impl \in {"conservative", "basic"} /\ ~last.raised) =>
        last.out.data.values = C5_Reference.out.data.values

\* A call of part_003 on a Complex document in which a mapping naming a
\* nonexistent field took a slot of the priority subset, and a valid mapping
\* that the call without it fills was left unfilled.
C5_GhostDisplacesValid ==
    /\ last.impl = "conservative"
    /\ last.isXFA
    /\ \E i \in DOMAIN mappings : ~C5_Valid(mappings[i])
    /\ last.exceptions = {}
    /\ C5_Reference.exceptions = {}
    /\ last.out.data.values # C5_Reference.out.data.values

\* C6: when exactly one record of a batch of N raises during its fill, every
\* record is processed, the result holds N entries for the records, exactly
\* one of them an error note for that record, and the last progress event is
\* current = N with status completed.
C6_BatchIsolation ==
    (bulk.phase = "done" /\ Len(bulk.caught) = 1) =>
        LET N == Len(users)
            entries == { k \in DOMAIN bulk.zip : bulk.zip[k].kind \in {"pdf", "error"} }
            failed == { k \in DOMAIN bulk.zip : bulk.zip[k].kind = "error" }
        IN  /\ bulk.i = N
            /\ Cardinality(entries) = N
            /\ Cardinality(failed) = 1
            /\ \A k \in failed : bulk.zip[k].name = errorFileName(users[bulk.caught[1]])
            /\ bulk.progress[Len(bulk.progress)] = Progress(N, N, "completed")

\* A batch of part_004 whose one record raised: the loop ended, and the
\* archive holds no entry for the record.
C6_RecordLost ==
    /\ bulk.impl = "legacy"
    /\ bulk.phase = "done"
    /\ Len(users) = 1
    /\ Len(bulk.caught) = 1
    /\ \A k \in DOMAIN bulk.zip : bulk.zip[k].kind \notin {"pdf", "error"}

\* C7: two calls of extractFormFields on the same bytes yield the same
\* catalog, with the same names in the same order.
C7_DiscoveryIdempotent ==
    (discovery.first.status # "none" /\ discovery.second.status # "none") =>
        discovery.first = discovery.second

\* Two calls of extractFormFields of part_004 on the same bytes that both
\* returned, with catalogs of different length.
C7_CatalogsDiffer ==
    /\ discovery.impl = "legacy"
    /\ discovery.first.status = "returned"
    /\ discovery.second.status = "returned"
    /\ Len(discovery.first.fields) # Len(discovery.second.fields)

\* C8: for the unreadable 0-byte template extractFormFields returns the
\* placeholder field set; it neither returns an empty catalog nor fails.
C8_EmptyTemplatePlaceholders ==
    (pdfData.size = 0 /\ discovery.first.status # "none") =>
        /\ discovery.first.status = "returned"
        /\ discovery.first.stage = "placeholder"
        /\ discovery.first.fields # <<>>

\* A call of extractFormFields on the 0-byte template that raised.
C8_EmptyTemplateRaises ==
    /\ pdfData.size = 0
    /\ discovery.first.status = "raised"
    /\ discovery.first.fields = <<>>

\* C11: with an absent or an empty mapping list generateSinglePDF attempts no
\* field and returns the template unmodified: the original bytes, or saved
\* bytes that passed validation and hold the template's field values, not
\* flattened and without regenerated appearances.
C11_NothingToFill ==
    (last.impl = "conservative" /\ mappings = <<>>) =>
        /\ ~last.raised
        /\ last.attempted = <<>>
        /\ last.filled = 0
        /\ \/ ReturnsOriginal
           \/ /\ last.validated = "passed"
              /\ validateGeneratedPDF(last.out)
              /\ last.out.data.values = TemplateData(tpl).values
              /\ ~last.out.data.flattened
              /\ ~last.out.data.appearances

\* A call of part_003 with an empty mapping list on a Complex document that
\* returned saved bytes no validation had seen.
C11_EmptyListUnvalidated ==
    /\ last.impl = "conservative"
    /\ last.given
    /\ mappings = <<>>
    /\ last.isXFA
    /\ last.out.buf = "saved"
    /\ last.validated = "skipped"
    /\ ~validateGeneratedPDF(last.out)

\* C12: a run on a document classified Complex neither flattens the form nor
\* regenerates the field appearances, be it by form.updateFieldAppearances or
\* by the updateFieldAppearances option of save.
C12_ComplexNoFlattenNoAppearances ==
    (last.impl \in {"conservative", "compat"} /\ last.isXFA) =>
        /\ ~last.flattened
        /\ ~last.formAppearances
        /\ ~last.saveAppearances
        /\ last.out.buf = "saved" => ~last.out.data.flattened /\ ~last.out.data.appearances

\* A call of pdfGeneration.ts, second class, on a Complex document whose
\* form.updateFieldAppearances ran and whose saved bytes carry the
\* regenerated appearances.
C12_ComplexAppearancesUpdated ==
    /\ last.impl = "compat"
    /\ last.isXFA
    /\ last.formAppearances
    /\ last.out.buf = "saved"
    /\ last.out.data.appearances
    /\ ~last.out.data.flattened

\* The value the rule gives a mapping for the record: the column's value when
\* the column is present and not empty, else the default; <<>> omits it.
C13_Resolved(m) ==
    IF Truthy(m.csvColumnName) /\ HasColumn(userData, m.csvColumnName)
       /\ Truthy(userData[m.csvColumnName])
    THEN userData[m.csvColumnName]
    ELSE m.defaultValue

\* C13: in a run on a Simple document that raised nothing and returned saved
\* bytes, every mapped text field holds the column's value when the column
\* is present and non-empty, otherwise the mapping's default, and stays
\* unset when there is neither; a present but empty column gives the default.
C13_ValueResolution ==
    (last.impl \in {"conservative", "basic", "compat"} /\ ~last.isXFA
        /\ last.exceptions = {} /\ last.out.buf = "saved") =>
        \A k \in DOMAIN mappings : \A i \in DOMAIN tpl.fields :
            (tpl.fields[i].name = mappings[k].pdfFieldName /\ tpl.fields[i].type = "Text") =>
                last.out.data.values[i] =
                    IF Truthy(trim(C13_Resolved(mappings[k])))
                    THEN [state |-> "text", v |-> trim(C13_Resolved(mappings[k]))]
                    ELSE Unset

\* A call of part_003 for a record whose column prenume is present and empty,
\* with a mapping of that column that has a default: the field stays unset.
C13_EmptyColumnSkipsDefault ==
    /\ last.impl = "conservative"
    /\ last.exceptions = {}
    /\ last.validated = "passed"
    /\ last.out.buf = "saved"
    /\ \E k \in DOMAIN mappings : \E i \in DOMAIN tpl.fields :
          /\ tpl.fields[i].name = mappings[k].pdfFieldName
          /\ HasColumn(userData, mappings[k].csvColumnName)
          /\ userData[mappings[k].csvColumnName] = <<>>
          /\ Truthy(mappings[k].defaultValue)
          /\ last.out.data.values[i] = Unset

\* C14: across the whole sequence of progress updates of one run, those of
\* generateBulkPDFs and those of the calling component, the error update
\* included, current never decreases and never exceeds total.  Stated on each
\* update as it is appended to the sequence.
C14_ProgressMonotone ==
    [][\A k \in DOMAIN bulk'.progress :
          /\ bulk'.progress[k].current <= bulk'.progress[k].total
          /\ k > 1 => bulk'.progress[k - 1].current <= bulk'.progress[k].current]_vars

\* C14, the failing run: a batch whose archive could not be produced or
\* downloaded; the catch block of the component puts current back to 0 after
\* the service had reported every record.
C14_ErrorResetsCurrent ==
    /\ bulk.phase = "failed"
    /\ Len(users) > 1
    /\ Len(bulk.progress) = Len(users) + 3
    /\ bulk.progress[Len(bulk.progress) - 1] = Progress(Len(users), Len(users), "completed")
    /\ bulk.progress[Len(bulk.progress)] = Progress(0, Len(users), "error")

\* The number of indicators of a family that the text includes.
C15_Matched(text, family) ==
    Cardinality({ i \in DOMAIN family : includes(text, family[i]) })

\* C15: a document is classified Complex if and only if at least two signals
\* of one signal family match; with fewer than two it is classified Simple.
\* Stated for the calls that reached the classifier and whose scan of the
\* bytes did not raise.
C15_ThresholdOfTwo ==
    (last.impl \in {"conservative", "compat"} /\ last.given /\ ~pdfLib.scanThrows
        /\ ~tpl.empty) =>
        (last.isXFA <=>
            \/ C15_Matched(tpl.text, xfaIndicators) >= 2
            \/ /\ last.impl = "conservative"
               /\ C15_Matched(toLowerCase(tpl.text),
                              [i \in DOMAIN romanianGovIndicators |->
                                  toLowerCase(romanianGovIndicators[i])]) >= 2)

\* C15, the failing run: a document with the one signal /XFA and no other is
\* classified Complex.
C15_OneSignalIsComplex ==
    /\ last.impl \in {"conservative", "compat"}
    /\ ~pdfLib.scanThrows
    /\ last.isXFA
    /\ C15_Matched(tpl.text, xfaIndicators) = 1
    /\ C15_Matched(toLowerCase(tpl.text),
                   [i \in DOMAIN romanianGovIndicators |->
                       toLowerCase(romanianGovIndicators[i])]) = 0

\* C16: the classifier never fails, and an unreadable buffer, the case where
\* the scan raises internally, is classified Complex.  Stated for the calls
\* that reached the classifier: in both engines it runs on bytes that are not
\* empty (part_003, line 20) or that pdf-lib could load (pdfGeneration.ts,
\* line 695).
C16_UnreadableIsComplex ==
    /\ (last.impl = "conservative" /\ last.given /\ ~tpl.empty /\ pdfLib.scanThrows) =>
            last.isXFA /\ ~last.raised
    /\ (last.impl = "compat" /\ tpl.parseable /\ pdfLib.scanThrows) =>
            last.isXFA /\ ~last.raised

\* C16, the failing run: the scan of a document that carries /XFA raised, the
\* classifier answered false without failing, and the document went down the
\* Simple path.
C16_UnreadableIsSimple ==
    /\ last.impl \in {"conservative", "compat"}
    /\ last.given
    /\ tpl.parseable
    /\ tpl.text = XfaText
    /\ pdfLib.scanThrows
    /\ ~last.isXFA
    /\ ~last.raised

\* C17: each fill result exclusively owns its output buffer: the buffer
\* generateSinglePDF returns, on every fallback path too, shares no storage
\* with template.fileData nor with the buffer returned for another record of
\* the batch.  A buffer that pdfDoc.save produced is storage of its own; a
\* buffer on "fileData" is the template's.
C17_ExclusiveOwnership ==
    bulk.impl = "conservative" =>
        /\ (last.impl = "conservative" /\ ~last.raised) => last.out.buf = "saved"
        /\ \A k \in DOMAIN bulk.zip :
              bulk.zip[k].kind = "pdf" => bulk.zip[k].content.buf = "saved"

\* C17, the failing run: pdf-lib could not load the template, and two records
\* of the batch each got a view on the storage of template.fileData.
C17_FallbacksShareTemplate ==
    /\ bulk.impl = "conservative"
    /\ ~tpl.parseable
    /\ \E j, k \in DOMAIN bulk.zip :
          /\ j # k
          /\ bulk.zip[j].kind = "pdf" /\ bulk.zip[j].content.buf = "fileData"
          /\ bulk.zip[k].kind = "pdf" /\ bulk.zip[k].content.buf = "fileData"

\* C18: for each mapping with a resolved value the named field is looked up
\* by exact name, then by a case-insensitive match on the name; when both
\* fail only that field is skipped and the record continues.  Stated on the
\* text fields of a Simple document, for the runs that raised nothing and
\* returned saved bytes: the field the lookup order designates holds the
\* value the engine resolved.
C18_LookupOrder ==
    (last.impl \in {"conservative", "compat"} /\ ~last.isXFA
        /\ last.exceptions = {} /\ last.out.buf = "saved") =>
        \A k \in DOMAIN mappings :
            LET m == mappings[k]
                value == IF last.impl = "compat" THEN resolveValue_compat(m, userData)
                         ELSE sanitizeTextValue(resolveValue(m, userData), TextMaxLength)
                exact == { i \in DOMAIN tpl.fields : tpl.fields[i].name = m.pdfFieldName }
                folded == { i \in DOMAIN tpl.fields :
                              toLowerCase(tpl.fields[i].name) = toLowerCase(m.pdfFieldName) }
            IN  Truthy(value) =>
                    \A i \in (IF exact # {} THEN exact ELSE folded) :
                        tpl.fields[i].type = "Text" =>
                            last.out.data.values[i] = [state |-> "text", v |-> value]

\* C18, the failing run: part_003 with the mapping Nume alone of its name, on
\* a form whose field is nume; the exact lookup fails, no other lookup is
\* made, and the field stays unset in the validated output.
C18_CaseVariantSkipped ==
    /\ last.impl = "conservative"
    /\ ~last.isXFA
    /\ last.exceptions = {}
    /\ last.validated = "passed"
    /\ last.out.buf = "saved"
    /\ \E k \in DOMAIN mappings :
          /\ mappings[k].pdfFieldName = <<"N","u","m","e">>
          /\ Truthy(resolveValue(mappings[k], userData))
    /\ \A k \in DOMAIN mappings : mappings[k].pdfFieldName # <<"n","u","m","e">>
    /\ \E i \in DOMAIN tpl.fields :
          /\ tpl.fields[i].name = <<"n","u","m","e">>
          /\ last.out.data.values[i] = Unset

\* C19: on every fill path a checkbox is checked exactly when the resolved
\* value, compared case-insensitively, is in the fixed truthy vocabulary,
\* which holds at least "true", "yes", "1" and "on"; any other value unchecks
\* it.  Stated on the checkboxes a run has set: one whose value is among the
\* four is checked, and one that is checked has a value of the widest
\* vocabulary of the source.
C19_BooleanCoercion ==
    (last.impl \in {"conservative", "basic", "compat"} /\ last.out.buf = "saved") =>
        \A k \in DOMAIN mappings : \A i \in DOMAIN tpl.fields :
            (/\ tpl.fields[i].name = mappings[k].pdfFieldName
             /\ tpl.fields[i].type = "CheckBox"
             /\ last.out.data.values[i] # Unset) =>
                LET value == IF last.impl = "compat"
                             THEN resolveValue_compat(mappings[k], userData)
                             ELSE resolveValue(mappings[k], userData)
                IN  /\ last.out.data.values[i].state \in {"checked", "unchecked"}
                    /\ toLowerCase(value) \in
                          { <<"t","r","u","e">>, <<"y","e","s">>, <<"1">>, <<"o","n">> } =>
                            last.out.data.values[i].state = "checked"
                    /\ last.out.data.values[i].state = "checked" =>
                            toLowerCase(value) \in truthyTokens

\* C19, the failing run: the Complex path of pdfGeneration.ts unchecks a
\* checkbox whose value is "On".
C19_OnUnchecksOnComplexPath ==
    /\ last.impl = "compat"
    /\ last.isXFA
    /\ last.out.buf = "saved"
    /\ \E k \in DOMAIN mappings : \E i \in DOMAIN tpl.fields :
          /\ tpl.fields[i].name = mappings[k].pdfFieldName
          /\ tpl.fields[i].type = "CheckBox"
          /\ resolveValue_compat(mappings[k], userData) = <<"O","n">>
          /\ last.out.data.values[i].state = "unchecked"

C21_TextSanitized ==
    (last.impl \in {"conservative", "basic", "compat"} /\ last.out.buf = "saved") =>
        \A i \in DOMAIN tpl.fields :
            last.out.data.values[i].state = "text" =>
                /\ Len(last.out.data.values[i].v) <= 500
                /\ \A k \in DOMAIN last.out.data.values[i].v :
                      last.out.data.values[i].v[k] \notin {"\f", "\t", "\n", "\r"}

\* C21, the failing run: the first class of pdfGeneration.ts writes the value
\* of the record with its form feed.
C21_ControlCharacterWritten ==
    /\ last.impl = "basic"
    /\ last.out.buf = "saved"
    /\ \E i \in DOMAIN tpl.fields :
          last.out.data.values[i] = [state |-> "text", v |-> <<"P","o","\f","p">>]

\* The catalog is the output of the first stage, in the order standard, raw,
\* romanian, that yields at least minimum fields.
C22_FirstSufficient(minimum) ==
    LET method1 == standardFields(pdfData)
        rawFields == extractFieldsFromRawPDF(pdfData)
        romanianFields == extractRomanianFormFields(pdfData)
    IN  IF Len(method1) >= minimum THEN discovery.first.fields = method1
        ELSE IF Len(rawFields) >= minimum THEN discovery.first.fields = rawFields
        ELSE Len(romanianFields) >= minimum => discovery.first.fields = romanianFields

\* C22: the catalog extractFormFields returns is exactly the output of the
\* first stage, in the fixed stage order, that yields at least the minimum
\* field count; no later stage replaces it.  The source has two thresholds,
\* 5 before the raw scan and 10 before the Romanian scan: the statement is
\* taken with whichever of the two fits the call.
C22_StopsAtFirstSufficient ==
    (discovery.impl = "service" /\ discovery.first.status = "returned") =>
        \/ C22_FirstSufficient(StandardThreshold)
        \/ C22_FirstSufficient(RomanianThreshold)

\* C22, the failing run: the form gave ten fields, enough under either
\* threshold, the document is Complex, and the raw scan, which found eleven
\* names, replaced them.
C22_SufficientStageReplaced ==
    /\ discovery.impl = "service"
    /\ discovery.first.status = "returned"
    /\ Len(standardFields(pdfData)) >= RomanianThreshold
    /\ discovery.first.stage = "raw"
    /\ discovery.first.fields = extractFieldsFromRawPDF(pdfData)
    /\ discovery.first.fields # standardFields(pdfData)

\* C23: every name in the result of extractFieldsFromRawPDF has passed name
\* validation, no name occurs twice, and the names stand in the order of
\* their first discovery, the captures being listed in pattern order and,
\* within a pattern, in byte order.  Stated on the calls of extractFormFields
\* that return the raw scan's output.
C23_PatternScanOutput ==
    (discovery.impl = "service" /\ discovery.first.status = "returned"
        /\ discovery.first.stage = "raw") =>
        LET fields == discovery.first.fields
            seen == [k \in DOMAIN pdfData.rawMatches |-> trim(pdfData.rawMatches[k])]
            firstSeen(name) ==
                CHOOSE k \in DOMAIN seen :
                    seen[k] = name /\ \A j \in DOMAIN seen : seen[j] = name => k <= j
        IN  \A k \in DOMAIN fields :
                /\ isValidFieldName(fields[k].name)
                /\ fields[k].name \in Range(seen)
                /\ \A j \in DOMAIN fields :
                      j < k => /\ fields[j].name # fields[k].name
                               /\ firstSeen(fields[j].name) < firstSeen(fields[k].name)

\* C23, its case: a raw scan whose captures hold a name twice and names that
\* fail validation, and whose output was returned.
C23_Witness ==
    /\ discovery.impl = "service"
    /\ discovery.first.status = "returned"
    /\ discovery.first.stage = "raw"
    /\ Len(discovery.first.fields) >= 2
    /\ \E j, k \in DOMAIN pdfData.rawMatches :
          j # k /\ trim(pdfData.rawMatches[j]) = trim(pdfData.rawMatches[k])
    /\ \E k \in DOMAIN pdfData.rawMatches : ~isValidFieldName(trim(pdfData.rawMatches[k]))

\* C24: whenever extractFormFields returns, its catalog is not empty, and
\* when every earlier stage found nothing the catalog is the placeholder set,
\* of at most as many fields as the document has pages.
C24_NeverZeroFields ==
    (discovery.impl \in {"service", "first"} /\ discovery.first.status = "returned") =>
        /\ discovery.first.fields # <<>>
        /\ (/\ standardFields(pdfData) = <<>>
            /\ IF discovery.impl = "service"
               THEN /\ extractFieldsFromRawPDF(pdfData) = <<>>
                    /\ validNames(pdfData.romanianMatches, 1, <<>>) = <<>>
               ELSE alternativeNames(pdfData.alternativeMatches, 1, <<>>) = <<>>) =>
                /\ discovery.first.stage = "placeholder"
                /\ Len(discovery.first.fields) <= pdfData.pageCount

\* C24, the failing run: part_002 on a document with an empty form, no
\* captured name and no appearance stream returns an empty catalog.
C24_EmptyCatalog ==
    /\ discovery.impl = "first"
    /\ discovery.first.status = "returned"
    /\ pdfData.parseable
    /\ ~pdfData.hasAppearances
    /\ discovery.first.fields = <<>>

\* C25: generateBulkPDFs handles the records in input order and reports a
\* progress event after each, so that the event following record i carries
\* current = i, the number of records handled so far, and every event of the
\* batch carries the same total.  Stated on every step of a batch: the step
\* handles the next record of the list, and the k-th event of the batch, the
\* one that follows record k - 1, carries current = k - 1.
C25_ProgressInOrder ==
    [][bulk.phase = "running" =>
          /\ \A k \in DOMAIN bulk'.progress :
                /\ bulk'.progress[k].total = Len(users)
                /\ bulk'.progress[k].current = k - 1
          /\ bulk'.i # bulk.i =>
                /\ bulk'.i = bulk.i + 1
                /\ Len(bulk'.progress) = bulk'.i
                /\ last' # last => last'.impl = bulk.impl
                /\ bulk'.caught # bulk.caught => bulk'.caught = Append(bulk.caught, bulk'.i)
          /\ bulk'.phase = "done" =>
                /\ bulk'.i = Len(users)
                /\ Len(bulk'.progress) = Len(users) + 1
                /\ bulk'.progress[Len(users) + 1].status = "completed"]_vars

\* C25, its case: a batch of two records has ended, with the events 0, 1 and
\* 2 of 2.
C25_Witness ==
    /\ bulk.phase = "done"
    /\ Len(users) = 2
    /\ bulk.progress = << Progress(0, 2, "processing"), Progress(1, 2, "processing"),
                          Progress(2, 2, "completed") >>

\* C26: after the last record the batch adds a summary with the counts of
\* filled, fallback and failed records and the success rate; a record whose
\* fill fell back to the original bytes is counted as fallback, not as filled.
\* Stated on a completed batch of part_003: the summary's count of successes
\* is the number of outputs that were filled and saved, and its count of
\* errors the number of error reports.
C26_FallbackNotCountedAsFilled ==
    (bulk.impl = "conservative" /\ bulk.phase = "done") =>
        LET entries(kind) == { k \in DOMAIN bulk.zip : bulk.zip[k].kind = kind }
            filled == { k \in entries("pdf") : bulk.zip[k].content.buf = "saved" }
        IN  \A k \in entries("summary") :
                /\ bulk.zip[k].content.data.successful = Cardinality(filled)
                /\ bulk.zip[k].content.data.errors = Cardinality(entries("error"))
                /\ bulk.zip[k].content.data.total = Len(users)

\* C26, its case: a completed batch of one record, whose output is the
\* template's own bytes, is summarised as one success of one (100.0%) and no
\* error; the summary has no third count.
C26_FallbackCountedAsSuccess ==
    /\ bulk.impl = "conservative" /\ bulk.phase = "done"
    /\ Len(users) = 1
    /\ \E k \in DOMAIN bulk.zip :
          bulk.zip[k].kind = "pdf" /\ bulk.zip[k].content.buf = "fileData"
    /\ \E k \in DOMAIN bulk.zip :
          /\ bulk.zip[k].kind = "summary"
          /\ DOMAIN bulk.zip[k].content.data = {"total", "successful", "errors", "rate"}
          /\ bulk.zip[k].content.data.successful = 1
          /\ bulk.zip[k].content.data.errors = 0
          /\ bulk.zip[k].content.data.rate = "1000"

\* C27: on a document classified Simple the flatten step and the
\* regeneration of the field appearances run after filling, so the returned
\* document is not editable.  Stated on a call that classified the document
\* Simple, filled a field, met no exception and returned saved bytes: the
\* call flattened the form and the bytes hold a flattened form with
\* regenerated appearances.
C27_SimpleIsFlattened ==
    (/\ last.impl \in {"conservative", "basic", "compat"}
     /\ last.given /\ ~last.raised /\ ~last.isXFA
     /\ last.filled > 0
     /\ last.exceptions = {}
     /\ last.out.buf = "saved") =>
        /\ last.flattened
        /\ last.out.data.flattened
        /\ last.out.data.appearances

\* C27, its case: a call of part_003 on a Simple document that filled a field
\* without any exception and returned validated saved bytes whose form is
\* still editable.
C27_SimpleLeftEditable ==
    /\ last.impl = "conservative"
    /\ last.given /\ ~last.raised /\ ~last.isXFA
    /\ last.filled > 0
    /\ last.exceptions = {}
    /\ last.out.buf = "saved"
    /\ last.validated = "passed"
    /\ last.out.data.appearances
    /\ ~last.flattened
    /\ ~last.out.data.flattened

\* C28: for a batch whose records have pairwise distinct ids generateBulkPDFs
\* gives every record an archive entry name of its own, with or without the
\* name fragment, so that no output replaces another and the archive holds
\* one entry per record.
C28_NamesNeverCollide ==
    (/\ bulk.impl = "conservative"
     /\ \A a, b \in DOMAIN users : a # b => users[a][IdColumn] # users[b][IdColumn]) =>
        /\ \A a, b \in DOMAIN users :
              a # b => fileName(users[a], mappings, FALSE) # fileName(users[b], mappings, FALSE)
        /\ Cardinality({ k \in DOMAIN bulk.zip : bulk.zip[k].kind \in {"pdf", "error"} })
              = bulk.i

\* C28, its case: a completed batch of part_003 of two records with the ids
\* "1" and "Pop_1", both generated, whose archive holds one PDF.
C28_OutputOverwritten ==
    /\ bulk.impl = "conservative" /\ bulk.phase = "done"
    /\ Len(users) = 2
    /\ users[1][IdColumn] # users[2][IdColumn]
    /\ bulk.successCount = 2
    /\ Cardinality({ k \in DOMAIN bulk.zip : bulk.zip[k].kind = "pdf" }) = 1
    /\ fileName(users[1], mappings, FALSE) = fileName(users[2], mappings, FALSE)

\* The positions of the mappings whose field name contains a critical
\* fragment, whatever the case of either.
C29_CriticalPositions ==
    { i \in DOMAIN mappings :
        \E n \in DOMAIN criticalFieldNames :
            includes(toLowerCase(mappings[i].pdfFieldName), toLowerCase(criticalFieldNames[n])) }

\* C29, its first half: selectCriticalFields returns, in the order of the
\* list, the first maxFields mappings whose field name contains a critical
\* fragment, and a run of part_003 on a Complex document with an accessible
\* form attempts exactly these.
C29_FirstCriticalInOrder ==
    LET selected == selectCriticalFields(mappings, MaxCriticalFields)
        rank(i) == Cardinality({ j \in C29_CriticalPositions : j <= i })
    IN  /\ Len(selected) = IF Cardinality(C29_CriticalPositions) < MaxCriticalFields
                           THEN Cardinality(C29_CriticalPositions) ELSE MaxCriticalFields
        /\ \A i \in C29_CriticalPositions :
              rank(i) <= MaxCriticalFields => selected[rank(i)] = mappings[i]
        /\ (last.impl = "conservative" /\ last.given /\ ~last.raised /\ last.isXFA
            /\ "form" \notin last.exceptions) =>
              last.attempted = [k \in DOMAIN selected |-> selected[k].pdfFieldName]

\* C29: selectCriticalFields returns the first maxFields critical mappings in
\* list order, and every mapping it returns has a resolvable value: a mapping
\* with no data source never takes a slot from a later critical mapping that
\* has one.
C29_SelectedAreResolvable ==
    /\ C29_FirstCriticalInOrder
    /\ last.impl = "conservative" =>
          LET selected == selectCriticalFields(mappings, MaxCriticalFields)
          IN  \A k \in DOMAIN selected :
                 /\ HasDataSource(selected[k])
                 /\ Truthy(resolveValue(selected[k], userData))

\* C29, its case: a run of part_003 on a Complex document attempted the
\* three fields Nume, prenume and email, prenume having neither column nor
\* default, and left out the later mapping of telefon, whose column the
\* record fills; of the three only email was filled.
C29_SlotTakenBySourceless ==
    /\ last.impl = "conservative" /\ last.given /\ ~last.raised /\ last.isXFA
    /\ Len(mappings) = 4
    /\ last.attempted = << <<"N","u","m","e">>, <<"p","r","e","n","u","m","e">>,
                           <<"e","m","a","i","l">> >>
    /\ ~HasDataSource(mappings[2])
    /\ mappings[4].pdfFieldName = <<"t","e","l","e","f","o","n">>
    /\ Truthy(resolveValue(mappings[4], userData))
    /\ last.filled = 1

\* The invocations of generatePDFs that have not returned.
C30_InFlight ==
    { r \in DOMAIN component.runs : component.runs[r].at # "returned" }

\* C30: at most one generation run is in flight per UsersList, and from the
\* invocation of generatePDFs until it returns the shared status is
\* 'processing', so that the Generate button stays disabled.
C30_OneRunInFlight ==
    /\ Cardinality(C30_InFlight) <= 1
    /\ C30_InFlight # {} => component.status = "processing"

\* C30, its case: a second click while the first invocation awaited the
\* template file, and two invocations are generating at once.
C30_TwoRunsInFlight ==
    /\ Cardinality(C30_InFlight) = 2
    /\ \A r \in C30_InFlight : component.runs[r].at = "generating"

\* C10: no call of generateSinglePDF or step of generateBulkPDFs changes the
\* bytes of template.fileData or the content of a data record.
C10_TemplateNeverMutated ==
    [][templateFileData' = templateFileData /\ userData' = userData /\ users' = users]_vars

C10_Witness ==
    /\ last.impl # "none"
    /\ last.filled > 0
    /\ last.out.buf = "saved"
    /\ last.out.data.values # TemplateData(tpl).values
    /\ templateFileData = TemplateData(tpl)

====
